---- MODULE Spec2Model ----
(***************************************************************************)
(* Oversite backend: the session / suggestion / chunk-decision API as a    *)
(* state machine over the relational tables of schema.py.                  *)
(*                                                                         *)
(* Every request is served by a worker thread that owns a SQLAlchemy       *)
(* session built by db.SessionLocal (autocommit=False, autoflush=False).   *)
(* A handler is cut into steps at its database accesses: a SELECT reads    *)
(* the committed tables at the instant of the step, objects added with     *)
(* db.add() stay pending in the worker until db.commit(), which flushes    *)
(* the pending INSERTs / UPDATEs and commits them in one step.  A handler  *)
(* reads datetime.now() a few statements before its commit; the model      *)
(* takes the reading in the committing step, so that timestamps follow     *)
(* commit order.                                                           *)
(***************************************************************************)
EXTENDS Integers, Sequences, FiniteSets, TLC

VARIABLES
    sessions,         \* table sessions        (row number = session_id)
    ai_suggestions,   \* table ai_suggestions  (row number = suggestion_id)
    chunk_decisions,  \* table chunk_decisions (row number = decision_id)
    events,           \* table events
    editor_events,    \* table editor_events
    session_scores,   \* table session_scores
    ai_interactions,  \* table ai_interactions
    judge,            \* the async_judge_task threads trigger_scoring has started
    clock,            \* datetime.now(timezone.utc), as a logical counter
    thr,              \* per worker thread: the request it is serving
    telemetry,        \* model/features.py: the SessionTelemetry handed to extract
    features,         \* model/features.py: what extract returned for it
    scores,           \* model/aggregation.py: the arguments of aggregate_scores
    aggregate,        \* model/aggregation.py: what aggregate_scores computed
    texts,            \* services/diff.py: the arguments of parse_hunks
    hunks             \* services/diff.py: what parse_hunks returned for them

vars == <<sessions, ai_suggestions, chunk_decisions, events, editor_events,
          session_scores, ai_interactions, judge, clock, thr, telemetry, features,
          scores, aggregate, texts, hunks>>

\* the variables of the feature extractor and of the aggregator of src/model
\* and of the hunk parser of services/diff.py, which no request handler
\* touches
feat == <<telemetry, features, scores, aggregate, texts, hunks>>

tables == <<sessions, ai_suggestions, chunk_decisions, events, editor_events,
            session_scores>>

\* the state of the backend, which the functions of src/model and the hunk
\* parser do not touch
backend == <<tables, ai_interactions, judge, clock, thr>>

-----------------------------------------------------------------------------
(* Bounds of the model *)

NumThreads == 2
MaxSessions == 2
MaxSuggestions == 1
MaxHunks == 2
MaxClock == 5

\* the worker threads serving requests
Threads == DOMAIN thr

-----------------------------------------------------------------------------
(* Nullable columns and JSON fields: None is <<>>, a value v is <<v>> *)

None == <<>>
Some(v) == <<v>>
IsNone(x) == x = <<>>
Val(x) == x[1]

Usernames == {"alice", "bob"}
ProjectName == "q1"

Min(S) == CHOOSE x \in S : \A y \in S : x <= y

-----------------------------------------------------------------------------
(* HTTP responses *)

Resp(status, msg) == [status |-> status, msg |-> msg, id |-> 0]
RespId(status, msg, id) == [status |-> status, msg |-> msg, id |-> id]

NoBody == [kind |-> "none"]

\* aggregate_scores has not been called
NoScores == [behavioral_score |-> 0, prompt_score |-> 0, critical_score |-> 0,
             feature_importances |-> <<>>]
NoAggregate == [status |-> "none"]

\* extract has not been called
NoFeatures == [status |-> "none"]

\* parse_hunks has not been called
NoTexts == [original |-> <<>>, proposed |-> <<>>]
NoHunks == [status |-> "none"]

\* no telemetry has been handed to the extractor
NoTelemetry == [decisions |-> <<>>, events |-> <<>>, interactions |-> <<>>,
                session_start |-> <<>>]

\* a worker that serves no request; resp is the response of its last request
Idle(resp) ==
    [pc |-> "idle", sid |-> 0, sug |-> 0, idx |-> 0, body |-> NoBody,
     loaded |-> None, upd |-> None, resp |-> resp]

Init ==
    /\ telemetry = NoTelemetry
    /\ features = NoFeatures
    /\ scores = NoScores
    /\ aggregate = NoAggregate
    /\ texts = NoTexts
    /\ hunks = NoHunks
    /\ sessions = <<>>
    /\ ai_suggestions = <<>>
    /\ chunk_decisions = <<>>
    /\ events = <<>>
    /\ editor_events = <<>>
    /\ session_scores = <<>>
    /\ ai_interactions = <<>>
    /\ judge = <<>>
    /\ clock = 1
    /\ thr = [t \in 1..1 |-> Idle(Resp(0, "none"))]

\* the worker answers and becomes free: nothing pending survives db.close()
Reply(t, resp) == thr' = [thr EXCEPT ![t] = Idle(resp)]

-----------------------------------------------------------------------------
(* utils.write_event *)

Event(session_id, event_type, content, suggestion_id, chunk_index, time_ms, ts) ==
    [session_id |-> session_id, event_type |-> event_type, content |-> content,
     suggestion_id |-> suggestion_id, chunk_index |-> chunk_index,
     time_on_chunk_ms |-> time_ms, timestamp |-> ts]

-----------------------------------------------------------------------------
(* routes/session.py: require_session *)

\* sid = 0 stands for a request without X-Session-ID header
SessionHeaders == 0..MaxSessions

require_session(sid) ==
    IF sid = 0 THEN Resp(401, "Missing X-Session-ID header")
    ELSE IF sid \notin 1..Len(sessions) THEN Resp(404, "Session not found")
    ELSE Resp(0, "ok")

\* requests whose handler has read the sessions table and not yet committed
StartsInFlight == Cardinality({t \in Threads : thr[t].pc = "start_commit"})

\* the model follows the program for MaxClock - 1 commits: a request that
\* will commit is admitted while the clock has room for it
InFlight == Cardinality({t \in Threads : thr[t].pc # "idle"})
CanCommit == clock + InFlight < MaxClock

-----------------------------------------------------------------------------
(* routes/session.py: start_session.  username = "" is a body without one. *)

\* faulty variant: the lookup of an active session is dropped
StartSessionBegin_NoResume(t, username) ==
    /\ UNCHANGED <<feat, ai_interactions, judge>>
    /\ thr[t].pc = "idle"
    /\ IF username = ""
       THEN Reply(t, Resp(400, "username is required"))
       ELSE /\ CanCommit
            /\ Len(sessions) + StartsInFlight < MaxSessions
            /\ thr' = [thr EXCEPT ![t] =
                         [Idle(Resp(0, "none")) EXCEPT
                            !.pc = "start_commit",
                            !.body = [kind |-> "start", username |-> username]]]
    /\ UNCHANGED <<tables, clock>>

StartSessionBegin(t, username) ==
    /\ UNCHANGED <<feat, ai_interactions, judge>>
    /\ thr[t].pc = "idle"
    /\ IF username = ""
       THEN /\ Reply(t, Resp(400, "username is required"))
            /\ UNCHANGED <<tables, clock>>
       ELSE LET existing == {i \in 1..Len(sessions) :
                                /\ sessions[i].username = username
                                /\ sessions[i].project_name = ProjectName
                                /\ IsNone(sessions[i].ended_at)}
                \* order_by(started_at.desc()).first()
                newest == {i \in existing : \A j \in existing :
                             sessions[j].started_at <= sessions[i].started_at}
            IN IF existing # {}
               THEN /\ \E i \in newest : Reply(t, RespId(200, "rehydrated", i))
                    /\ UNCHANGED <<tables, clock>>
               ELSE /\ CanCommit
                    /\ Len(sessions) + StartsInFlight < MaxSessions
                    /\ thr' = [thr EXCEPT ![t] =
                                 [Idle(Resp(0, "none")) EXCEPT
                                    !.pc = "start_commit",
                                    !.body = [kind |-> "start", username |-> username]]]
                    /\ UNCHANGED <<tables, clock>>

StartSessionCommit(t) ==
    /\ UNCHANGED <<feat, ai_interactions, judge>>
    /\ thr[t].pc = "start_commit"
    /\ LET session_id == Len(sessions) + 1
       IN /\ sessions' = Append(sessions,
                [username |-> thr[t].body.username, project_name |-> ProjectName,
                 started_at |-> clock, ended_at |-> None])
          /\ events' = Append(events,
                Event(session_id, "panel_focus", "orientation", 0, 0, 0, clock))
          /\ Reply(t, RespId(201, "session started", session_id))
    /\ clock' = clock + 1
    /\ UNCHANGED <<ai_suggestions, chunk_decisions, editor_events, session_scores>>

-----------------------------------------------------------------------------
(* services/scoring.py.  Scores are kept as integers: sub-scores in tenths, *)
(* the weighted score in hundredths.                                        *)

\* run_behavioral_evaluation: 3.0 without a model, else the classifier's
\* label mapped through label_score_map; the classifier itself is opaque
BehavioralScores == {15, 30, 45}

\* per-decision score of run_critical_review_evaluation, in tenths
DecisionScore(d) ==
    IF d.decision = "accepted" THEN 20
    ELSE IF d.decision = "modified" THEN 45
    ELSE IF d.decision = "rejected" THEN 40
    ELSE 0

RECURSIVE SumScores(_, _)
SumScores(tbl, S) ==
    IF S = {} THEN 0
    ELSE LET i == Min(S) IN DecisionScore(tbl[i]) + SumScores(tbl, S \ {i})

\* aggregate_scores(behavioral, prompt, critical) with critical = csum / n:
\* <<round(weighted, 2) in hundredths, label>>
aggregate_scores(behavioral, prompt, csum, n) ==
    LET num == 34 * behavioral * n + 33 * prompt * n + 33 * csum
        \* weighted = num / (1000 * n)
        label == IF num >= 3500 * n THEN "strategic"
                 ELSE IF num >= 2500 * n THEN "balanced"
                 ELSE "over_reliant"
    IN <<(2 * num + 10 * n) \div (20 * n), label>>

\* the SessionScore row trigger_scoring adds for session_id, given the
\* classifier's behavioral score
score_record(session_id, behavioral) ==
    LET events_count == Cardinality({i \in 1..Len(events) : events[i].session_id = session_id})
        prompts_count == Cardinality({i \in 1..Len(ai_interactions) :
                                        ai_interactions[i].session_id = session_id})
        decs == {i \in 1..Len(chunk_decisions) : chunk_decisions[i].session_id = session_id}
        agg == IF decs = {}
               THEN aggregate_scores(behavioral, 30, 30, 1)
               ELSE aggregate_scores(behavioral, 30, SumScores(chunk_decisions, decs),
                                     Cardinality(decs))
    IN IF events_count = 0 /\ prompts_count = 0
       THEN [session_id |-> session_id, overall_label |-> "Not Enough Data",
             weighted_score |-> 300, llm_narrative |-> None]
       ELSE [session_id |-> session_id, overall_label |-> agg[2],
             weighted_score |-> agg[1], llm_narrative |-> None]

-----------------------------------------------------------------------------
(* routes/session.py: end_session *)

\* faulty variant: the ended_at test is dropped
AlreadyEnded_Never(session) == FALSE

\* if session.ended_at:
AlreadyEnded(session) == ~IsNone(session.ended_at)

EndSessionBegin(t, sid) ==
    /\ UNCHANGED <<feat, ai_interactions, judge>>
    /\ thr[t].pc = "idle"
    /\ LET auth == require_session(sid)
       IN IF auth.status # 0
          THEN Reply(t, auth)
          ELSE IF AlreadyEnded(sessions[sid])
          THEN Reply(t, Resp(400, "Session already ended"))
          ELSE /\ CanCommit
               /\ thr' = [thr EXCEPT ![t] =
                            [Idle(Resp(0, "none")) EXCEPT !.pc = "end_commit", !.sid = sid]]
    /\ UNCHANGED <<tables, clock>>

\* the thread trigger_scoring starts for the SessionScore it has committed
\* (row score_id): scores_for_judge carries the label and the weighted score
JudgeTask(score_id, record) ==
    [score_id |-> score_id,
     scores_dict |-> [label |-> record.overall_label, weighted |-> record.weighted_score],
     narrative |-> None, pc |-> "run"]

\* session.ended_at = now; db.commit(); trigger_scoring(session_id, db) and
\* the 200 response.  trigger_scoring commits the SessionScore and starts
\* the judge thread; an exception inside the pipeline is logged and no
\* SessionScore is stored.
EndSessionCommit(t) ==
    /\ UNCHANGED <<feat, ai_interactions>>
    /\ thr[t].pc = "end_commit"
    /\ sessions' = [sessions EXCEPT ![thr[t].sid].ended_at = Some(clock)]
    /\ clock' = clock + 1
    /\ \/ \E b \in BehavioralScores :
            LET record == score_record(thr[t].sid, b)
            IN /\ session_scores' = Append(session_scores, record)
               /\ judge' = Append(judge, JudgeTask(Len(session_scores) + 1, record))
       \/ UNCHANGED <<session_scores, judge>>
    /\ Reply(t, Resp(200, "session ended"))
    /\ UNCHANGED <<ai_suggestions, chunk_decisions, events, editor_events>>

-----------------------------------------------------------------------------
(* routes/suggestions.py: create_suggestion *)

SuggestionIds == 0..MaxSuggestions      \* 0: an id no suggestion has

CreateBodies ==
    {[kind |-> "create", interaction_id |-> Some("i1"), file_id |-> Some("f1"),
      original_content |-> Some("old"), proposed_content |-> Some("new")],
     [kind |-> "create", interaction_id |-> None, file_id |-> Some("f1"),
      original_content |-> Some("old"), proposed_content |-> Some("new")],
     [kind |-> "create", interaction_id |-> Some("i1"), file_id |-> None,
      original_content |-> Some("old"), proposed_content |-> Some("new")],
     [kind |-> "create", interaction_id |-> Some("i1"), file_id |-> Some("f1"),
      original_content |-> Some("old"), proposed_content |-> None],
     [kind |-> "create", interaction_id |-> Some("i1"), file_id |-> Some("f1"),
      original_content |-> Some("old"), proposed_content |-> Some("old")]}

EditorEvent(session_id, trigger, content, suggestion_id, ts) ==
    [session_id |-> session_id, trigger |-> trigger, content |-> content,
     suggestion_id |-> suggestion_id, timestamp |-> ts]

\* the handler reads nothing after require_session and commits once, so it
\* is one step
CreateSuggestion(t, sid, body) ==
    /\ UNCHANGED <<feat, ai_interactions, judge>>
    /\ thr[t].pc = "idle"
    /\ LET auth == require_session(sid)
           suggestion_id == Len(ai_suggestions) + 1
       IN IF auth.status # 0
          THEN Reply(t, auth) /\ UNCHANGED <<tables, clock>>
          ELSE IF IsNone(body.interaction_id)
          THEN Reply(t, Resp(400, "interaction_id is required")) /\ UNCHANGED <<tables, clock>>
          ELSE IF IsNone(body.file_id)
          THEN Reply(t, Resp(400, "file_id is required")) /\ UNCHANGED <<tables, clock>>
          ELSE IF IsNone(body.original_content) \/ IsNone(body.proposed_content)
          THEN /\ Reply(t, Resp(400, "original_content and proposed_content are required"))
               /\ UNCHANGED <<tables, clock>>
          ELSE IF body.original_content = body.proposed_content
          THEN /\ Reply(t, Resp(400, "proposed_content must differ from original_content"))
               /\ UNCHANGED <<tables, clock>>
          ELSE /\ CanCommit
               /\ Len(ai_suggestions) < MaxSuggestions
               /\ ai_suggestions' = Append(ai_suggestions,
                     [session_id |-> sid,
                      original_content |-> Val(body.original_content),
                      proposed_content |-> Val(body.proposed_content),
                      hunks_count |-> None, shown_at |-> clock,
                      resolved_at |-> None, all_accepted |-> None,
                      any_modified |-> None])
               /\ editor_events' = Append(editor_events,
                     EditorEvent(sid, "post_suggestion", Val(body.original_content),
                                 suggestion_id, clock))
               /\ events' = Append(events,
                     Event(sid, "suggestion_shown", "", suggestion_id, 0, 0, clock))
               /\ clock' = clock + 1
               /\ Reply(t, Resp(201, "suggestion created"))
               /\ UNCHANGED <<sessions, chunk_decisions, session_scores>>

-----------------------------------------------------------------------------
(* tests/test_chunk_decisions.py: setup_suggestion_with_hunks.  No route   *)
(* assigns hunks_count; the fixture writes it straight into the table      *)
(* right after the suggestion is created, while no request is running.     *)

HunkCounts == 1..MaxHunks

setup_suggestion_with_hunks(s, hunks_count) ==
    /\ UNCHANGED <<feat, ai_interactions, judge>>
    /\ s \in 1..Len(ai_suggestions)
    /\ \A t \in Threads : thr[t].pc = "idle"
    /\ IsNone(ai_suggestions[s].hunks_count)
    /\ IsNone(ai_suggestions[s].resolved_at)
    /\ {i \in 1..Len(chunk_decisions) : chunk_decisions[i].suggestion_id = s} = {}
    /\ ai_suggestions' = [ai_suggestions EXCEPT ![s].hunks_count = Some(hunks_count)]
    /\ UNCHANGED <<sessions, chunk_decisions, events, editor_events, session_scores,
                   clock, thr>>

-----------------------------------------------------------------------------
(* routes/suggestions.py: resolve_suggestion *)

ResolveBodies ==
    {[kind |-> "resolve", final_content |-> Some("final"),
      all_accepted |-> Some(TRUE), any_modified |-> Some(FALSE)],
     [kind |-> "resolve", final_content |-> Some("final"),
      all_accepted |-> Some(FALSE), any_modified |-> Some(TRUE)],
     [kind |-> "resolve", final_content |-> Some("final"),
      all_accepted |-> None, any_modified |-> None],
     [kind |-> "resolve", final_content |-> None,
      all_accepted |-> Some(TRUE), any_modified |-> Some(FALSE)]}

\* faulty variant: the ownership test is dropped
SuggestionNotFound_AnyOwner(sid, sug) == sug \notin 1..Len(ai_suggestions)

\* db.query(AISuggestion).filter_by(suggestion_id=...).first() and the
\* ownership test: TRUE iff the handler answers 404
SuggestionNotFound(sid, sug) ==
    \/ sug \notin 1..Len(ai_suggestions)
    \/ ai_suggestions[sug].session_id # sid

\* the flush of an attribute the handler assigned: the UPDATE carries a
\* column only when the assigned value differs from the loaded one
Flush(current, loaded, assigned) == IF assigned = loaded THEN current ELSE assigned

ResolveBegin(t, sid, sug, body) ==
    /\ UNCHANGED <<feat, ai_interactions, judge>>
    /\ thr[t].pc = "idle"
    /\ LET auth == require_session(sid)
       IN IF auth.status # 0
          THEN Reply(t, auth) /\ UNCHANGED <<tables, clock>>
          ELSE IF SuggestionNotFound(sid, sug)
          THEN Reply(t, Resp(404, "Suggestion not found")) /\ UNCHANGED <<tables, clock>>
          ELSE IF ~IsNone(ai_suggestions[sug].resolved_at)
          THEN Reply(t, Resp(409, "Suggestion already resolved")) /\ UNCHANGED <<tables, clock>>
          ELSE IF IsNone(body.final_content)
          THEN Reply(t, Resp(400, "final_content is required")) /\ UNCHANGED <<tables, clock>>
          ELSE /\ CanCommit
               /\ thr' = [thr EXCEPT ![t] =
                            [Idle(Resp(0, "none")) EXCEPT
                               !.pc = "resolve_commit", !.sid = sid, !.sug = sug,
                               !.body = body, !.loaded = Some(ai_suggestions[sug])]]
               /\ UNCHANGED <<tables, clock>>

ResolveCommit(t) ==
    /\ UNCHANGED <<feat, ai_interactions, judge>>
    /\ thr[t].pc = "resolve_commit"
    /\ LET r == thr[t]
           cur == ai_suggestions[r.sug]
       IN /\ ai_suggestions' = [ai_suggestions EXCEPT ![r.sug] =
                [cur EXCEPT
                   !.resolved_at = Some(clock),
                   !.all_accepted = Flush(cur.all_accepted, Val(r.loaded).all_accepted,
                                          r.body.all_accepted),
                   !.any_modified = Flush(cur.any_modified, Val(r.loaded).any_modified,
                                          r.body.any_modified)]]
          /\ editor_events' = Append(editor_events,
                EditorEvent(r.sid, "suggestion_resolved", Val(r.body.final_content),
                            r.sug, clock))
          /\ events' = Append(events,
                Event(r.sid, "suggestion_resolved", "", r.sug, 0, 0, clock))
          /\ Reply(t, Resp(200, "resolved"))
    /\ clock' = clock + 1
    /\ UNCHANGED <<sessions, chunk_decisions, session_scores>>

-----------------------------------------------------------------------------
(* routes/suggestions.py: decide_chunk *)

\* db.py: sessionmaker(autocommit=False, autoflush=False, bind=engine).
\* With autoflush off a query does not flush the session's pending objects,
\* so it sees the committed rows only.
autoflush == FALSE

ChunkIndexes == 0..MaxHunks

\* request bodies; time_on_chunk_ms = None is a missing or non-integer value
DecideBodies ==
    {[kind |-> "decide", decision |-> "accepted", final_code |-> Some("code"),
      time_on_chunk_ms |-> Some(50)],
     [kind |-> "decide", decision |-> "rejected", final_code |-> Some("code"),
      time_on_chunk_ms |-> Some(999999)],
     [kind |-> "decide", decision |-> "modified", final_code |-> Some("code"),
      time_on_chunk_ms |-> Some(5000)],
     [kind |-> "decide", decision |-> "maybe", final_code |-> Some("code"),
      time_on_chunk_ms |-> Some(5000)],
     [kind |-> "decide", decision |-> "accepted", final_code |-> None,
      time_on_chunk_ms |-> Some(5000)],
     [kind |-> "decide", decision |-> "accepted", final_code |-> Some("code"),
      time_on_chunk_ms |-> None]}

\* faulty variant: min(300000, time_ms), the floor is dropped
ClampTime_NoFloor(time_ms) == IF time_ms < 300000 THEN time_ms ELSE 300000

\* max(100, min(300000, time_ms))
ClampTime(time_ms) ==
    LET lo == IF time_ms < 300000 THEN time_ms ELSE 300000
    IN IF lo > 100 THEN lo ELSE 100

\* faulty variant: chunk_index = hunks_count passes
InvalidChunkIndex_OffByOne(suggestion, chunk_index) ==
    /\ ~IsNone(suggestion.hunks_count)
    /\ (chunk_index < 0 \/ chunk_index > Val(suggestion.hunks_count))

\* faulty variant: the range test is dropped
InvalidChunkIndex_Never(suggestion, chunk_index) == FALSE

\* hunks_count is not None and (chunk_index < 0 or chunk_index >= hunks_count)
InvalidChunkIndex(suggestion, chunk_index) ==
    /\ ~IsNone(suggestion.hunks_count)
    /\ (chunk_index < 0 \/ chunk_index >= Val(suggestion.hunks_count))

\* faulty variant: the lookup never finds a row
ExistingDecision_None(sug, chunk_index) == {}

\* db.query(ChunkDecision).filter_by(suggestion_id=, chunk_index=).first()
ExistingDecision(sug, chunk_index) ==
    {i \in 1..Len(chunk_decisions) :
       /\ chunk_decisions[i].suggestion_id = sug
       /\ chunk_decisions[i].chunk_index = chunk_index}

\* the ChunkDecision the handler adds to its session
ChunkDecisionRow(r) ==
    [suggestion_id |-> r.sug, session_id |-> r.sid, chunk_index |-> r.idx,
     original_code |-> "", proposed_code |-> "",
     final_code |-> Val(r.body.final_code), decision |-> r.body.decision,
     time_on_chunk_ms |-> ClampTime(Val(r.body.time_on_chunk_ms))]

\* the rows a db.query(ChunkDecision).filter_by(suggestion_id=...) of worker
\* r returns: the committed ones and, under autoflush, its pending one
VisibleDecisions(r) ==
    LET committed == {i \in 1..Len(chunk_decisions) : chunk_decisions[i].suggestion_id = r.sug}
    IN [n |-> Cardinality(committed) + (IF autoflush THEN 1 ELSE 0),
        all_accepted |-> /\ \A i \in committed : chunk_decisions[i].decision = "accepted"
                         /\ (autoflush => r.body.decision = "accepted"),
        any_modified |-> \/ \E i \in committed : chunk_decisions[i].decision = "modified"
                         \/ (autoflush /\ r.body.decision = "modified")]

\* lines 163-221: the checks, then the decision and its audit event are
\* added to the session (write_event may raise: the handler rolls back)
DecideBegin(t, sid, sug, idx, body) ==
    /\ UNCHANGED <<feat, ai_interactions, judge>>
    /\ thr[t].pc = "idle"
    /\ LET auth == require_session(sid)
       IN IF auth.status # 0
          THEN Reply(t, auth) /\ UNCHANGED <<tables, clock>>
          ELSE IF SuggestionNotFound(sid, sug)
          THEN Reply(t, Resp(404, "Suggestion not found")) /\ UNCHANGED <<tables, clock>>
          ELSE IF InvalidChunkIndex(ai_suggestions[sug], idx)
          THEN /\ Reply(t, Resp(400, "Invalid chunk_index for this suggestion"))
               /\ UNCHANGED <<tables, clock>>
          ELSE IF ExistingDecision(sug, idx) # {}
          THEN Reply(t, Resp(409, "Chunk already decided")) /\ UNCHANGED <<tables, clock>>
          ELSE IF body.decision \notin {"accepted", "rejected", "modified"}
          THEN Reply(t, Resp(400, "Invalid decision")) /\ UNCHANGED <<tables, clock>>
          ELSE IF IsNone(body.final_code)
          THEN Reply(t, Resp(400, "final_code is required")) /\ UNCHANGED <<tables, clock>>
          ELSE IF IsNone(body.time_on_chunk_ms)
          THEN /\ Reply(t, Resp(400, "time_on_chunk_ms must be an integer"))
               /\ UNCHANGED <<tables, clock>>
          ELSE \/ /\ CanCommit
                  /\ thr' = [thr EXCEPT ![t] =
                               [Idle(Resp(0, "none")) EXCEPT
                                  !.pc = "decide_count", !.sid = sid, !.sug = sug,
                                  !.idx = idx, !.body = body,
                                  !.loaded = Some(ai_suggestions[sug])]]
                  /\ UNCHANGED <<tables, clock>>
               \/ /\ Reply(t, Resp(500, "Transaction failed"))
                  /\ UNCHANGED <<tables, clock>>

\* faulty variant: the suggestion is completed by any decision, the count is
\* not compared with hunks_count
DecideCount_Early(t) ==
    /\ UNCHANGED <<feat, ai_interactions, judge>>
    /\ thr[t].pc = "decide_count"
    /\ LET r == thr[t]
           hunks_count == Val(r.loaded).hunks_count
           v == VisibleDecisions(r)
       IN IF ~IsNone(hunks_count)
          THEN thr' = [thr EXCEPT ![t].pc = "decide_commit",
                                  ![t].upd = Some([all_accepted |-> Some(v.all_accepted),
                                                   any_modified |-> Some(v.any_modified)])]
          ELSE thr' = [thr EXCEPT ![t].pc = "decide_commit"]
    /\ UNCHANGED <<tables, clock>>

\* faulty variant: a suggestion whose hunks_count is unknown is completed by
\* its first decision
DecideCount_UnknownCompletes(t) ==
    /\ UNCHANGED <<feat, ai_interactions, judge>>
    /\ thr[t].pc = "decide_count"
    /\ LET r == thr[t]
           hunks_count == Val(r.loaded).hunks_count
           v == VisibleDecisions(r)
       IN IF IsNone(hunks_count) \/ v.n = Val(hunks_count)
          THEN thr' = [thr EXCEPT ![t].pc = "decide_commit",
                                  ![t].upd = Some([all_accepted |-> Some(v.all_accepted),
                                                   any_modified |-> Some(v.any_modified)])]
          ELSE thr' = [thr EXCEPT ![t].pc = "decide_commit"]
    /\ UNCHANGED <<tables, clock>>

\* lines 223-228: the completion check against the loaded hunks_count; on
\* completion all_accepted and any_modified are assigned on the loaded
\* suggestion (resolved_at is stamped when the UPDATE commits)
DecideCount(t) ==
    /\ UNCHANGED <<feat, ai_interactions, judge>>
    /\ thr[t].pc = "decide_count"
    /\ LET r == thr[t]
           hunks_count == Val(r.loaded).hunks_count
           v == VisibleDecisions(r)
       IN IF ~IsNone(hunks_count) /\ v.n = Val(hunks_count)
          THEN thr' = [thr EXCEPT ![t].pc = "decide_commit",
                                  ![t].upd = Some([all_accepted |-> Some(v.all_accepted),
                                                   any_modified |-> Some(v.any_modified)])]
          ELSE thr' = [thr EXCEPT ![t].pc = "decide_commit"]
    /\ UNCHANGED <<tables, clock>>

\* faulty variant: a failed commit leaves the ChunkDecision behind without
\* its audit event
DecideCommit_Partial(t) ==
    /\ UNCHANGED <<feat, ai_interactions, judge>>
    /\ thr[t].pc = "decide_commit"
    /\ LET r == thr[t]
           row == ChunkDecisionRow(r)
       IN \/ /\ chunk_decisions' = Append(chunk_decisions, row)
             /\ events' = Append(events,
                   Event(r.sid, "chunk_" \o r.body.decision, row.final_code, r.sug,
                         r.idx, row.time_on_chunk_ms, clock))
             /\ clock' = clock + 1
             /\ Reply(t, Resp(201, "decided"))
          \/ /\ chunk_decisions' = Append(chunk_decisions, row)
             /\ Reply(t, Resp(500, "Transaction failed"))
             /\ UNCHANGED <<events, clock>>
    /\ UNCHANGED <<sessions, ai_suggestions, editor_events, session_scores>>

\* line 230: db.commit() flushes the INSERTs and the UPDATE and commits
\* them; lines 231-233: on an exception everything is rolled back
DecideCommit(t) ==
    /\ UNCHANGED <<feat, ai_interactions, judge>>
    /\ thr[t].pc = "decide_commit"
    /\ LET r == thr[t]
           row == ChunkDecisionRow(r)
           cur == ai_suggestions[r.sug]
           old == Val(r.loaded)
       IN \/ /\ chunk_decisions' = Append(chunk_decisions, row)
             /\ events' = Append(events,
                   Event(r.sid, "chunk_" \o r.body.decision, row.final_code, r.sug,
                         r.idx, row.time_on_chunk_ms, clock))
             /\ ai_suggestions' =
                   IF IsNone(r.upd) THEN ai_suggestions
                   ELSE [ai_suggestions EXCEPT ![r.sug] =
                           [cur EXCEPT
                              !.resolved_at = Some(clock),
                              !.all_accepted = Flush(cur.all_accepted, old.all_accepted,
                                                     Val(r.upd).all_accepted),
                              !.any_modified = Flush(cur.any_modified, old.any_modified,
                                                     Val(r.upd).any_modified)]]
             /\ clock' = clock + 1
             /\ Reply(t, Resp(201, "decided"))
          \/ /\ Reply(t, Resp(500, "Transaction failed"))
             /\ UNCHANGED <<ai_suggestions, chunk_decisions, events, clock>>
    /\ UNCHANGED <<sessions, editor_events, session_scores>>

-----------------------------------------------------------------------------

Next ==
    \/ \E t \in Threads, username \in Usernames \cup {""} : StartSessionBegin(t, username)
    \/ \E t \in Threads : StartSessionCommit(t)
    \/ \E t \in Threads, sid \in SessionHeaders : EndSessionBegin(t, sid)
    \/ \E t \in Threads : EndSessionCommit(t)
    \/ \E t \in Threads, sid \in SessionHeaders, body \in CreateBodies :
          CreateSuggestion(t, sid, body)
    \/ \E s \in 1..MaxSuggestions, n \in HunkCounts : setup_suggestion_with_hunks(s, n)
    \/ \E t \in Threads, sid \in SessionHeaders, sug \in SuggestionIds,
          body \in ResolveBodies : ResolveBegin(t, sid, sug, body)
    \/ \E t \in Threads : ResolveCommit(t)
    \/ \E t \in Threads, sid \in SessionHeaders, sug \in SuggestionIds,
          idx \in ChunkIndexes, body \in DecideBodies : DecideBegin(t, sid, sug, idx, body)
    \/ \E t \in Threads : DecideCount(t)
    \/ \E t \in Threads : DecideCommit(t)

Spec == Init /\ [][Next]_vars

\* the requests of the API alone: no test fixture writes into the tables
NextApi ==
    \/ \E t \in Threads, username \in Usernames \cup {""} : StartSessionBegin(t, username)
    \/ \E t \in Threads : StartSessionCommit(t)
    \/ \E t \in Threads, sid \in SessionHeaders : EndSessionBegin(t, sid)
    \/ \E t \in Threads : EndSessionCommit(t)
    \/ \E t \in Threads, sid \in SessionHeaders, body \in CreateBodies :
          CreateSuggestion(t, sid, body)
    \/ \E t \in Threads, sid \in SessionHeaders, sug \in SuggestionIds,
          body \in ResolveBodies : ResolveBegin(t, sid, sug, body)
    \/ \E t \in Threads : ResolveCommit(t)
    \/ \E t \in Threads, sid \in SessionHeaders, sug \in SuggestionIds,
          idx \in ChunkIndexes, body \in DecideBodies : DecideBegin(t, sid, sug, idx, body)
    \/ \E t \in Threads : DecideCount(t)
    \/ \E t \in Threads : DecideCommit(t)

SpecApi == Init /\ [][NextApi]_vars

-----------------------------------------------------------------------------
(* Concurrent requests on one suggestion.  The tables are those Spec       *)
(* reaches by start_session, create_suggestion and, for a known            *)
(* hunks_count, setup_suggestion_with_hunks (timestamps counted from the   *)
(* moment the workers start); NumThreads workers then serve decide and     *)
(* resolve requests of the owning session, their steps interleaved.        *)

ConcDecideBodies ==
    {b \in DecideBodies : /\ b.decision \in {"accepted", "modified"}
                          /\ ~IsNone(b.final_code)
                          /\ ~IsNone(b.time_on_chunk_ms)}

InitConc ==
    /\ telemetry = NoTelemetry
    /\ features = NoFeatures
    /\ scores = NoScores
    /\ aggregate = NoAggregate
    /\ texts = NoTexts
    /\ hunks = NoHunks
    /\ sessions = <<[username |-> "alice", project_name |-> ProjectName,
                     started_at |-> -1, ended_at |-> None]>>
    /\ \E h \in {None} \cup {Some(n) : n \in HunkCounts} :
          ai_suggestions = <<[session_id |-> 1, original_content |-> "old",
                              proposed_content |-> "new", hunks_count |-> h,
                              shown_at |-> 0, resolved_at |-> None,
                              all_accepted |-> None, any_modified |-> None]>>
    /\ chunk_decisions = <<>>
    /\ events = <<Event(1, "panel_focus", "orientation", 0, 0, 0, -1),
                  Event(1, "suggestion_shown", "", 1, 0, 0, 0)>>
    /\ editor_events = <<EditorEvent(1, "post_suggestion", "old", 1, 0)>>
    /\ session_scores = <<>>
    /\ ai_interactions = <<>>
    /\ judge = <<>>
    /\ clock = 1
    /\ thr = [t \in 1..NumThreads |-> Idle(Resp(0, "none"))]

NextConc ==
    \/ \E t \in Threads, idx \in ChunkIndexes, body \in ConcDecideBodies :
          DecideBegin(t, 1, 1, idx, body)
    \/ \E t \in Threads : DecideCount(t)
    \/ \E t \in Threads : DecideCommit(t)
    \/ \E t \in Threads, body \in ResolveBodies : ResolveBegin(t, 1, 1, body)
    \/ \E t \in Threads : ResolveCommit(t)

SpecConc == InitConc /\ [][NextConc]_vars

-----------------------------------------------------------------------------
(* decide_chunk on its own: two sessions have been started and the first   *)
(* one has been shown a suggestion, with or without a known hunks_count;   *)
(* one worker then serves decide requests with any header, suggestion id,  *)
(* chunk index and body.                                                    *)

InitDecide ==
    /\ telemetry = NoTelemetry
    /\ features = NoFeatures
    /\ scores = NoScores
    /\ aggregate = NoAggregate
    /\ texts = NoTexts
    /\ hunks = NoHunks
    /\ sessions = <<[username |-> "alice", project_name |-> ProjectName,
                     started_at |-> -2, ended_at |-> None],
                    [username |-> "bob", project_name |-> ProjectName,
                     started_at |-> -1, ended_at |-> None]>>
    /\ \E h \in {None} \cup {Some(n) : n \in HunkCounts} :
          ai_suggestions = <<[session_id |-> 1, original_content |-> "old",
                              proposed_content |-> "new", hunks_count |-> h,
                              shown_at |-> 0, resolved_at |-> None,
                              all_accepted |-> None, any_modified |-> None]>>
    /\ chunk_decisions = <<>>
    /\ events = <<Event(1, "panel_focus", "orientation", 0, 0, 0, -2),
                  Event(2, "panel_focus", "orientation", 0, 0, 0, -1),
                  Event(1, "suggestion_shown", "", 1, 0, 0, 0)>>
    /\ editor_events = <<EditorEvent(1, "post_suggestion", "old", 1, 0)>>
    /\ session_scores = <<>>
    /\ ai_interactions = <<>>
    /\ judge = <<>>
    /\ clock = 1
    /\ thr = [t \in 1..1 |-> Idle(Resp(0, "none"))]

NextDecide ==
    \/ \E t \in Threads, sid \in SessionHeaders, sug \in SuggestionIds,
          idx \in ChunkIndexes, body \in DecideBodies : DecideBegin(t, sid, sug, idx, body)
    \/ \E t \in Threads : DecideCount(t)
    \/ \E t \in Threads : DecideCommit(t)

SpecDecide == InitDecide /\ [][NextDecide]_vars

-----------------------------------------------------------------------------
(* routes/ai.py: chat, with the two handlers that write panel_focus events *)
(* (routes/events.py: panel_event, routes/session.py: update_phase).        *)

PHASE_VALUES == {"orientation", "implementation", "verification"}

VALID_PANELS == {"editor", "chat", "filetree", "orientation", "implementation",
                 "verification"}

\* the panel of a request body: "" is a body without one, "sidebar" a panel
\* the interface does not have
PanelInputs == VALID_PANELS \cup {"", "sidebar"}

\* the phase of a request body: "" is a body without one, "review" a value
\* that is no phase
PhaseInputs == PHASE_VALUES \cup {"", "review"}

\* the prompt of a request body: "" is a body without one
PromptInputs == {"", "explain this"}

\* faulty variant: the filter on PHASE_VALUES is dropped
current_phase_NoFilter(session_id) ==
    LET found == {i \in 1..Len(events) :
                     /\ events[i].session_id = session_id
                     /\ events[i].event_type = "panel_focus"}
        newest == {i \in found : \A j \in found :
                     events[j].timestamp <= events[i].timestamp}
    IN IF found = {} THEN None
       ELSE Some(events[CHOOSE i \in newest : TRUE].content)

\* _current_phase: the content of the newest panel_focus event of the
\* session whose content is a phase value, or None
current_phase(session_id) ==
    LET found == {i \in 1..Len(events) :
                     /\ events[i].session_id = session_id
                     /\ events[i].event_type = "panel_focus"
                     /\ events[i].content \in PHASE_VALUES}
        \* order_by(Event.timestamp.desc()).first()
        newest == {i \in found : \A j \in found :
                     events[j].timestamp <= events[i].timestamp}
    IN IF found = {} THEN None
       ELSE Some(events[CHOOSE i \in newest : TRUE].content)

\* panel_event: one write_event and one commit, so it is one step
PanelEvent(t, sid, panel) ==
    /\ UNCHANGED <<feat, ai_interactions, judge>>
    /\ thr[t].pc = "idle"
    /\ LET auth == require_session(sid)
       IN IF auth.status # 0
          THEN /\ Reply(t, auth)
               /\ UNCHANGED <<events, clock>>
          ELSE IF panel = ""
          THEN /\ Reply(t, Resp(400, "panel is required"))
               /\ UNCHANGED <<events, clock>>
          ELSE IF panel \notin VALID_PANELS
          THEN /\ Reply(t, Resp(400, "panel must be one of VALID_PANELS"))
               /\ UNCHANGED <<events, clock>>
          ELSE /\ CanCommit
               /\ events' = Append(events,
                     Event(sid, "panel_focus", panel, 0, 0, 0, clock))
               /\ clock' = clock + 1
               /\ Reply(t, Resp(201, "event recorded"))
    /\ UNCHANGED <<sessions, ai_suggestions, chunk_decisions, editor_events,
                   session_scores>>

\* update_phase: any non-empty phase is written as a panel_focus event
UpdatePhase(t, sid, phase) ==
    /\ UNCHANGED <<feat, ai_interactions, judge>>
    /\ thr[t].pc = "idle"
    /\ LET auth == require_session(sid)
       IN IF auth.status # 0
          THEN /\ Reply(t, auth)
               /\ UNCHANGED <<events, clock>>
          ELSE IF phase = ""
          THEN /\ Reply(t, Resp(400, "phase is required"))
               /\ UNCHANGED <<events, clock>>
          ELSE /\ CanCommit
               /\ events' = Append(events,
                     Event(sid, "panel_focus", phase, 0, 0, 0, clock))
               /\ clock' = clock + 1
               /\ Reply(t, Resp(200, "Phase updated"))
    /\ UNCHANGED <<sessions, ai_suggestions, chunk_decisions, editor_events,
                   session_scores>>

\* the AIInteraction row of chat; interaction_id is the row's position
AIInteraction(interaction_id, session_id, prompt, shown_at, phase) ==
    [interaction_id |-> interaction_id, session_id |-> session_id,
     prompt |-> prompt, shown_at |-> shown_at, phase |-> phase]

\* the "prompt" event of chat, whose metadata carries interaction_id and phase
PromptEvent(session_id, prompt, interaction_id, phase, ts) ==
    [session_id |-> session_id, event_type |-> "prompt", content |-> prompt,
     suggestion_id |-> 0, chunk_index |-> 0, time_on_chunk_ms |-> 0,
     timestamp |-> ts, interaction_id |-> interaction_id, phase |-> phase]

\* the "response" event of chat
ResponseEvent(session_id, interaction_id, ts) ==
    [session_id |-> session_id, event_type |-> "response", content |-> "answer",
     suggestion_id |-> 0, chunk_index |-> 0, time_on_chunk_ms |-> 0,
     timestamp |-> ts, interaction_id |-> interaction_id]

\* chat up to the call of the assistant: the prompt is checked and the phase
\* is read from the event log (line 71)
ChatBegin(t, sid, prompt) ==
    /\ UNCHANGED <<feat, ai_interactions, judge>>
    /\ thr[t].pc = "idle"
    /\ LET auth == require_session(sid)
       IN IF auth.status # 0
          THEN Reply(t, auth)
          ELSE IF prompt = ""
          THEN Reply(t, Resp(400, "prompt is required"))
          ELSE /\ CanCommit
               /\ thr' = [thr EXCEPT ![t] =
                            [Idle(Resp(0, "none")) EXCEPT
                               !.pc = "chat_llm", !.sid = sid,
                               !.body = [kind |-> "chat", prompt |-> prompt],
                               !.loaded = current_phase(sid)]]
    /\ UNCHANGED <<tables, clock>>

\* the assistant answers or fails.  On a failure the handler returns 502
\* and has written nothing; on an answer it adds the AIInteraction and the
\* prompt and response events and commits.
ChatCommit(t) ==
    /\ UNCHANGED <<feat, judge>>
    /\ thr[t].pc = "chat_llm"
    /\ LET r == thr[t]
           interaction_id == Len(ai_interactions) + 1
       IN \/ /\ Reply(t, Resp(502, "AI service unavailable"))
             /\ UNCHANGED <<ai_interactions, events, clock>>
          \/ /\ ai_interactions' = Append(ai_interactions,
                   AIInteraction(interaction_id, r.sid, r.body.prompt, clock, r.loaded))
             /\ events' = events \o
                   <<PromptEvent(r.sid, r.body.prompt, interaction_id, r.loaded, clock),
                     ResponseEvent(r.sid, interaction_id, clock)>>
             /\ clock' = clock + 1
             /\ Reply(t, RespId(201, "answered", interaction_id))
    /\ UNCHANGED <<sessions, ai_suggestions, chunk_decisions, editor_events,
                   session_scores>>

\* one worker serves start_session, panel_event, update_phase and chat
\* requests
NextChat ==
    \/ \E t \in Threads, username \in Usernames : StartSessionBegin(t, username)
    \/ \E t \in Threads : StartSessionCommit(t)
    \/ \E t \in Threads, sid \in SessionHeaders, panel \in PanelInputs :
          PanelEvent(t, sid, panel)
    \/ \E t \in Threads, sid \in SessionHeaders, phase \in PhaseInputs :
          UpdatePhase(t, sid, phase)
    \/ \E t \in Threads, sid \in SessionHeaders, prompt \in PromptInputs :
          ChatBegin(t, sid, prompt)
    \/ \E t \in Threads : ChatCommit(t)

SpecChat == Init /\ [][NextChat]_vars

-----------------------------------------------------------------------------
(* The scoring pipeline on its own: one session is ended whose telemetry is *)
(* drawn from a bounded set.  The session either was inserted directly and  *)
(* has no event (tests/test_edge_cases.py), or was started through the API  *)
(* and has decided up to MaxHunks chunks of one suggestion.                 *)

ScoreDecisions ==
    {[decision |-> d, time_on_chunk_ms |-> ms] :
        d \in {"accepted", "rejected", "modified"}, ms \in {100, 5000}}

ScoreDecisionSeqs ==
    UNION {[1..n -> ScoreDecisions] : n \in 0..MaxHunks}

InitScore ==
    /\ telemetry = NoTelemetry
    /\ features = NoFeatures
    /\ scores = NoScores
    /\ aggregate = NoAggregate
    /\ texts = NoTexts
    /\ hunks = NoHunks
    /\ sessions = <<[username |-> "alice", project_name |-> ProjectName,
                     started_at |-> -2, ended_at |-> None]>>
    /\ \E ds \in ScoreDecisionSeqs, direct \in BOOLEAN :
          /\ direct => ds = <<>>
          /\ ai_suggestions =
                IF ds = <<>> THEN <<>>
                ELSE <<[session_id |-> 1, original_content |-> "old",
                        proposed_content |-> "new", hunks_count |-> None,
                        shown_at |-> -1, resolved_at |-> None,
                        all_accepted |-> None, any_modified |-> None]>>
          /\ chunk_decisions =
                [i \in 1..Len(ds) |->
                   [suggestion_id |-> 1, session_id |-> 1, chunk_index |-> i - 1,
                    original_code |-> "", proposed_code |-> "", final_code |-> "code",
                    decision |-> ds[i].decision,
                    time_on_chunk_ms |-> ds[i].time_on_chunk_ms]]
          /\ events =
                IF direct THEN <<>>
                ELSE <<Event(1, "panel_focus", "orientation", 0, 0, 0, -2)>>
                     \o (IF ds = <<>> THEN <<>>
                         ELSE <<Event(1, "suggestion_shown", "", 1, 0, 0, -1)>>)
                     \o [i \in 1..Len(ds) |->
                           Event(1, "chunk_" \o ds[i].decision, "code", 1, i - 1,
                                 ds[i].time_on_chunk_ms, 0)]
          /\ editor_events =
                IF ds = <<>> THEN <<>>
                ELSE <<EditorEvent(1, "post_suggestion", "old", 1, -1)>>
    /\ session_scores = <<>>
    /\ ai_interactions = <<>>
    /\ judge = <<>>
    /\ clock = 1
    /\ thr = [t \in 1..1 |-> Idle(Resp(0, "none"))]

NextScore ==
    \/ \E t \in Threads : EndSessionBegin(t, 1)
    \/ \E t \in Threads : EndSessionCommit(t)

SpecScore == InitScore /\ [][NextScore]_vars

-----------------------------------------------------------------------------
(* services/scoring.py: async_judge_task, the thread that writes the       *)
(* narrative of a SessionScore.  It runs beside the request handlers with  *)
(* a database session of its own.                                          *)

\* label.replace('_', ' ').title()
Title(label) ==
    IF label = "over_reliant" THEN "Over Reliant"
    ELSE IF label = "balanced" THEN "Balanced"
    ELSE IF label = "strategic" THEN "Strategic"
    ELSE IF label = "Not Enough Data" THEN "Not Enough Data"
    ELSE label

\* the narrative of lines 464-466, built when judge_call raised
FallbackNarrative(scores_dict) ==
    [kind |-> "fallback", label |-> Title(scores_dict.label),
     weight |-> scores_dict.weighted]

\* what client.judge_call returned
LlmNarrative == [kind |-> "llm", label |-> "", weight |-> 0]

\* lines 425-466, up to the first database access.  GeminiClient() (it
\* raises without GEMINI_API_KEY) and the reading of the two prompt files
\* stand outside the inner try: an exception there ends the task in the
\* outer handler.  judge_call itself either returns (the client is patched,
\* as in the tests) or raises, and then the fallback narrative is built:
\* llm.py declares judge_call(scores, excerpts, system_prompt), so the
\* two-argument call of line 461 raises TypeError on the real client.
JudgeRun(k) ==
    /\ k \in 1..Len(judge)
    /\ judge[k].pc = "run"
    /\ \/ judge' = [judge EXCEPT ![k].pc = "failed"]
       \/ judge' = [judge EXCEPT ![k].pc = "store",
                                  ![k].narrative = Some(LlmNarrative)]
       \/ judge' = [judge EXCEPT ![k].pc = "store",
                                  ![k].narrative =
                                     Some(FallbackNarrative(judge[k].scores_dict))]
    /\ UNCHANGED <<feat, tables, ai_interactions, clock, thr>>

\* lines 468-472: the record is looked up by score_id and its llm_narrative
\* is assigned and committed; lines 474-476: a failing commit is rolled back
JudgeStore(k) ==
    /\ k \in 1..Len(judge)
    /\ judge[k].pc = "store"
    /\ \/ /\ judge[k].score_id \in 1..Len(session_scores)
          /\ session_scores' = [session_scores EXCEPT
                                  ![judge[k].score_id].llm_narrative = judge[k].narrative]
          /\ judge' = [judge EXCEPT ![k].pc = "done"]
       \/ /\ judge' = [judge EXCEPT ![k].pc = "failed"]
          /\ UNCHANGED session_scores
    /\ UNCHANGED <<feat, sessions, ai_suggestions, chunk_decisions, events,
                   editor_events, ai_interactions, clock, thr>>

\* end_session on the sessions of InitScore, and the judge threads it starts
NextJudge ==
    \/ \E t \in Threads : EndSessionBegin(t, 1)
    \/ \E t \in Threads : EndSessionCommit(t)
    \/ \E k \in 1..MaxSessions : JudgeRun(k)
    \/ \E k \in 1..MaxSessions : JudgeStore(k)

\* a started thread is scheduled until it ends
SpecJudge ==
    /\ InitScore
    /\ [][NextJudge]_vars
    /\ \A k \in 1..MaxSessions : WF_vars(JudgeRun(k)) /\ WF_vars(JudgeStore(k))

-----------------------------------------------------------------------------
(* model/features.py: compute_behavioral_features.                          *)
(* A number is an exact rational <<numerator, denominator>> in lowest       *)
(* terms.  A code string is kept as its length.  A timestamp is None, a     *)
(* datetime [kind |-> "datetime", at |-> seconds] or the ISO string of one, *)
(* [kind |-> "str", at |-> seconds].                                        *)

FEATURE_NAMES ==
    <<"rate_acceptance", "duration_deliberation_avg", "rate_post_acceptance_edit",
      "freq_verification", "ratio_reprompt", "rate_chunk_acceptance",
      "rate_passive_acceptance", "duration_chunk_avg_ms", "pct_time_editor",
      "pct_time_chat", "duration_orientation_s", "depth_iteration",
      "count_prompt_orientation", "count_prompt_implementation",
      "count_prompt_verification", "deliberation_to_action_ratio">>

RECURSIVE GCD(_, _)
GCD(a, b) == IF b = 0 THEN a ELSE GCD(b, a % b)

Abs(x) == IF x < 0 THEN -x ELSE x

\* n / d for n >= 0, d > 0
Rat(n, d) == LET g == GCD(n, d) IN <<n \div g, d \div g>>
RatAdd(a, b) == Rat(a[1] * b[2] + b[1] * a[2], a[2] * b[2])
RatDiv(a, b) == Rat(a[1] * b[2], a[2] * b[1])
Zero == <<0, 1>>

\* sum(xs) of a list of rationals
RECURSIVE RatSum(_)
RatSum(xs) == IF xs = <<>> THEN Zero ELSE RatAdd(Head(xs), RatSum(Tail(xs)))

\* x.get('timestamp') if x.get('timestamp') else datetime.min
SortKey(ts) == IF ts = <<>> THEN [kind |-> "datetime", at |-> -1] ELSE ts[1]

\* sorted(..., key=...) raises TypeError when it has to compare a str with
\* a datetime
SortRaises(keys) ==
    \E i, j \in 1..Len(keys) : keys[i].kind = "str" /\ keys[j].kind = "datetime"

\* the order sorted() puts the items in, as indices: ascending keys, and
\* equal keys in their input order (the sort is stable)
SortedOrder(keys) ==
    LET n == Len(keys)
    IN CHOOSE p \in [1..n -> 1..n] :
          \A i, j \in 1..n :
             i < j => \/ keys[p[i]].at < keys[p[j]].at
                      \/ keys[p[i]].at = keys[p[j]].at /\ p[i] < p[j]

\* datetime.fromisoformat on a string timestamp; a datetime is left alone
AsDatetime(ts) == IF ts = <<>> THEN ts ELSE <<[kind |-> "datetime", at |-> ts[1].at]>>

\* lines 67-99: the chunk-decision metrics
DecisionFeatures(decisions) ==
    LET total_chunks == Len(decisions)
        accepted == SelectSeq(decisions, LAMBDA d : d.decision = "accepted")
        modified == SelectSeq(decisions, LAMBDA d : d.decision = "modified")
        \* [t for t in ... if d.get('time_on_chunk_ms')]: None and 0 are dropped
        timed == SelectSeq(decisions, LAMBDA d :
                    d.time_on_chunk_ms # <<>> /\ d.time_on_chunk_ms[1] # 0)
        times == [i \in 1..Len(timed) |-> Rat(timed[i].time_on_chunk_ms[1], 1)]
        avg_time == IF times = <<>> THEN Zero
                    ELSE RatDiv(RatSum(times), <<Len(times), 1>>)
        \* if proposed and final: an empty string on either side is skipped
        edited == SelectSeq(modified, LAMBDA d : d.proposed_code > 0 /\ d.final_code > 0)
        edit_rates == [i \in 1..Len(edited) |->
                         Rat(Abs(edited[i].final_code - edited[i].proposed_code),
                             IF edited[i].proposed_code > 1
                             THEN edited[i].proposed_code ELSE 1)]
        rate_edit == IF edit_rates = <<>> THEN Zero
                     ELSE RatDiv(RatSum(edit_rates), <<Len(edit_rates), 1>>)
    IN IF total_chunks = 0
       THEN [rate_acceptance |-> Zero, rate_chunk_acceptance |-> Zero,
             rate_passive_acceptance |-> Zero, duration_deliberation_avg |-> Zero,
             duration_chunk_avg_ms |-> Zero, rate_post_acceptance_edit |-> Zero,
             deliberation_to_action_ratio |-> Zero]
       ELSE [rate_acceptance |-> Rat(Len(accepted), total_chunks),
             rate_chunk_acceptance |-> Rat(Len(accepted) + Len(modified), total_chunks),
             rate_passive_acceptance |-> Rat(Len(accepted), total_chunks),
             duration_deliberation_avg |-> avg_time,
             duration_chunk_avg_ms |-> avg_time,
             rate_post_acceptance_edit |-> rate_edit,
             deliberation_to_action_ratio |->
                IF rate_edit[1] > 0 THEN RatDiv(avg_time, rate_edit) ELSE avg_time]

\* faulty variant: a counted execute does not consume the edit
RECURSIVE Cycles_NoReset(_, _)
Cycles_NoReset(types, last_was_edit) ==
    IF types = <<>> THEN 0
    ELSE IF Head(types) = "edit" THEN Cycles_NoReset(Tail(types), TRUE)
    ELSE IF Head(types) = "execute" /\ last_was_edit
         THEN 1 + Cycles_NoReset(Tail(types), TRUE)
    ELSE Cycles_NoReset(Tail(types), last_was_edit)

\* lines 130-139: the edit -> execute cycles of the sorted event types
RECURSIVE Cycles(_, _)
Cycles(types, last_was_edit) ==
    IF types = <<>> THEN 0
    ELSE IF Head(types) = "edit" THEN Cycles(Tail(types), TRUE)
    ELSE IF Head(types) = "execute" /\ last_was_edit THEN 1 + Cycles(Tail(types), FALSE)
    ELSE Cycles(Tail(types), last_was_edit)

\* lines 101-139: the event metrics (the caller has checked the sort)
EventFeatures(evs, session_start) ==
    LET total_events == Len(evs)
        exec_count == Len(SelectSeq(evs, LAMBDA e : e.event_type = "execute"))
        panel_events == SelectSeq(evs, LAMBDA e : e.event_type = "panel_focus")
        editor_count == Len(SelectSeq(panel_events, LAMBDA e : e.content = "editor"))
        chat_count == Len(SelectSeq(panel_events, LAMBDA e : e.content = "chat"))
        order == SortedOrder([i \in 1..total_events |-> SortKey(evs[i].timestamp)])
        sorted_events == [i \in 1..total_events |-> evs[order[i]]]
        actions == SelectSeq(sorted_events, LAMBDA e : e.event_type \in {"edit", "prompt"})
        fa_ts == IF actions = <<>> THEN <<>> ELSE AsDatetime(Head(actions).timestamp)
        dur == IF fa_ts = <<>> \/ session_start = <<>> THEN 0
               ELSE fa_ts[1].at - session_start[1]
    IN IF total_events = 0
       THEN [freq_verification |-> Zero, pct_time_editor |-> Zero, pct_time_chat |-> Zero,
             duration_orientation_s |-> Zero, depth_iteration |-> Zero]
       ELSE [freq_verification |-> Rat(exec_count, total_events),
             pct_time_editor |-> IF panel_events = <<>> THEN Zero
                                 ELSE Rat(editor_count, Len(panel_events)),
             pct_time_chat |-> IF panel_events = <<>> THEN Zero
                               ELSE Rat(chat_count, Len(panel_events)),
             duration_orientation_s |-> IF dur > 0 THEN Rat(dur, 1) ELSE Zero,
             depth_iteration |->
                Rat(Cycles([i \in 1..total_events |-> sorted_events[i].event_type],
                           FALSE), 1)]

\* lines 141-164: the prompt metrics (the caller has checked the sort)
InteractionFeatures(interactions) ==
    LET total_p == Len(interactions)
        count(phase) == Len(SelectSeq(interactions, LAMBDA q : q.phase = phase))
        order == SortedOrder([i \in 1..total_p |-> SortKey(interactions[i].shown_at)])
        sorted_prompts == [i \in 1..total_p |-> interactions[order[i]]]
        reprompts ==
           Cardinality({i \in 2..total_p :
              LET prev_ts == AsDatetime(sorted_prompts[i - 1].shown_at)
                  curr_ts == AsDatetime(sorted_prompts[i].shown_at)
              IN /\ prev_ts # <<>>
                 /\ curr_ts # <<>>
                 /\ curr_ts[1].at - prev_ts[1].at < 60})
    IN IF total_p = 0
       THEN [count_prompt_orientation |-> Zero, count_prompt_implementation |-> Zero,
             count_prompt_verification |-> Zero, ratio_reprompt |-> Zero]
       ELSE [count_prompt_orientation |-> Rat(count("orientation"), total_p),
             count_prompt_implementation |-> Rat(count("implementation"), total_p),
             count_prompt_verification |-> Rat(count("verification"), total_p),
             ratio_reprompt |-> Rat(reprompts, total_p)]

\* lines 47-166: the 16-element vector in the order of FEATURE_NAMES, or the
\* exception that leaves the function
compute_behavioral_features(data) ==
    LET event_keys == [i \in 1..Len(data.events) |-> SortKey(data.events[i].timestamp)]
        prompt_keys == [i \in 1..Len(data.interactions) |->
                          SortKey(data.interactions[i].shown_at)]
    IN IF SortRaises(event_keys) \/ SortRaises(prompt_keys)
       THEN [status |-> "raised", error |-> "TypeError"]
       ELSE LET f == DecisionFeatures(data.decisions)
                    @@ EventFeatures(data.events, data.session_start)
                    @@ InteractionFeatures(data.interactions)
            IN [status |-> "ok",
                vector |-> [i \in 1..Len(FEATURE_NAMES) |-> f[FEATURE_NAMES[i]]]]

\* lines 168-178; the model's telemetry carries no 'precomputed' map
extract_behavioral_features(data) == compute_behavioral_features(data)

-----------------------------------------------------------------------------
(* The extractor on its own: a SessionTelemetry is drawn from a bounded set *)
(* and extract is applied to it.  Either one of the three lists is filled   *)
(* up to its bound, or each list has at most one item.                      *)

MaxDecisions == 2
MaxEvents == 3
MaxInteractions == 2

Datetime(at) == <<[kind |-> "datetime", at |-> at]>>
IsoString(at) == <<[kind |-> "str", at |-> at]>>

TelemetryDecisions ==
    [decision : {"accepted", "rejected", "modified"},
     time_on_chunk_ms : {None, Some(1000)},
     proposed_code : {0, 1, 2},
     final_code : {0, 3}]

TelemetryEvents ==
    {[event_type |-> ty[1], content |-> ty[2], timestamp |-> ts] :
        ty \in {<<"edit", "">>, <<"execute", "">>,
                <<"panel_focus", "editor">>, <<"panel_focus", "chat">>},
        ts \in {None, Datetime(0), Datetime(30), IsoString(30)}}

TelemetryInteractions ==
    [phase : {"orientation", "implementation", "verification"},
     shown_at : {None, Datetime(0), Datetime(30), Datetime(100), IsoString(30)}]

SeqsUpTo(S, n) == UNION {[1..k -> S] : k \in 0..n}

Telemetries ==
    LET T(ds, es, qs, start) ==
           [decisions |-> ds, events |-> es, interactions |-> qs, session_start |-> start]
    IN {T(ds, <<>>, <<>>, None) : ds \in SeqsUpTo(TelemetryDecisions, MaxDecisions)}
       \cup {T(<<>>, es, <<>>, start) :
                es \in SeqsUpTo(TelemetryEvents, MaxEvents), start \in {None, Some(10)}}
       \cup {T(<<>>, <<>>, qs, None) :
                qs \in SeqsUpTo(TelemetryInteractions, MaxInteractions)}
       \cup {T(ds, es, qs, start) :
                ds \in SeqsUpTo(TelemetryDecisions, 1), es \in SeqsUpTo(TelemetryEvents, 1),
                qs \in SeqsUpTo(TelemetryInteractions, 1), start \in {None, Some(10)}}

InitFeat ==
    /\ telemetry \in Telemetries
    /\ features = NoFeatures
    /\ scores = NoScores
    /\ aggregate = NoAggregate
    /\ texts = NoTexts
    /\ hunks = NoHunks
    /\ sessions = <<>>
    /\ ai_suggestions = <<>>
    /\ chunk_decisions = <<>>
    /\ events = <<>>
    /\ editor_events = <<>>
    /\ session_scores = <<>>
    /\ ai_interactions = <<>>
    /\ judge = <<>>
    /\ clock = 1
    /\ thr = [t \in 1..1 |-> Idle(Resp(0, "none"))]

Extract ==
    /\ features = NoFeatures
    /\ features' = extract_behavioral_features(telemetry)
    /\ UNCHANGED <<backend, telemetry, scores, aggregate, texts, hunks>>

NextFeat == Extract

SpecFeat == InitFeat /\ [][NextFeat]_vars

-----------------------------------------------------------------------------
(* model/aggregation.py: aggregate_scores.  Sub-scores are in tenths,       *)
(* weights and importances in hundredths, so that the weighted sum is an    *)
(* exact number of thousandths; the returned score is in hundredths.  A     *)
(* feature-importance map is a function from feature names to importances;  *)
(* None is a call without one.                                              *)

\* the keys whose importances are summed
behavioral_feats ==
    {"deliberation_time_avg", "verification_frequency", "time_by_panel_editor_pct"}

\* sum(feature_importances.get(f, 0.0) for f in names)
RECURSIVE SumImportances(_, _)
SumImportances(importances, names) ==
    IF names = {} THEN 0
    ELSE LET f == CHOOSE x \in names : TRUE
         IN (IF f \in DOMAIN importances THEN importances[f] ELSE 0)
            + SumImportances(importances, names \ {f})

\* lines 28-50: <<w_behavioral, w_prompt, w_critical>>; an absent or empty
\* map is falsy and keeps the baseline
Weights(feature_importances) ==
    IF feature_importances = <<>> \/ DOMAIN feature_importances[1] = {}
    THEN <<34, 33, 33>>
    ELSE IF SumImportances(feature_importances[1], behavioral_feats) > 40
    THEN <<50, 25, 25>>
    ELSE <<34, 33, 33>>

\* round(x, 2) of x thousandths, in hundredths.  On a decimal tie the result
\* of round() follows the binary value of the float sum; the scores drawn
\* below produce no tie.
Round2(x) == (x + 5) \div 10

\* lines 8-66 of model/aggregation.py: the label is taken from the clipped
\* sum (lines 58-63), the returned score is that sum rounded (line 65)
model_aggregate_scores(behavioral_score, prompt_score, critical_score, feature_importances) ==
    LET w == Weights(feature_importances)
        raw == behavioral_score * w[1] + prompt_score * w[2] + critical_score * w[3]
        weighted_score == IF raw < 1000 THEN 1000 ELSE IF raw > 5000 THEN 5000 ELSE raw
    IN [status |-> "ok", weights |-> w, weighted_score |-> Round2(weighted_score),
        overall_label |-> IF weighted_score >= 3500 THEN "strategic"
                          ELSE IF weighted_score >= 2500 THEN "balanced"
                          ELSE "over_reliant"]

\* the names a feature-importance map is keyed by: those of FEATURE_NAMES
\* and those aggregate_scores looks up
ImportanceNames ==
    {"duration_deliberation_avg", "freq_verification", "pct_time_editor"}
    \cup behavioral_feats

MaxImportances == 2

\* the sub-scores aggregate_scores is called with, in tenths; the prompt and
\* critical scores are all even, which keeps every weighted sum off a tie
BehavioralInputs == {10, 30, 31, 50}
ReviewInputs == {10, 30, 36, 38, 50}

ImportanceMaps ==
    UNION {[names -> {20, 30}] :
              names \in {N \in SUBSET ImportanceNames : Cardinality(N) <= MaxImportances}}

InitAgg ==
    /\ scores \in [behavioral_score : BehavioralInputs, prompt_score : ReviewInputs,
                   critical_score : ReviewInputs,
                   feature_importances : {None} \cup {Some(m) : m \in ImportanceMaps}]
    /\ aggregate = NoAggregate
    /\ texts = NoTexts
    /\ hunks = NoHunks
    /\ telemetry = NoTelemetry
    /\ features = NoFeatures
    /\ sessions = <<>>
    /\ ai_suggestions = <<>>
    /\ chunk_decisions = <<>>
    /\ events = <<>>
    /\ editor_events = <<>>
    /\ session_scores = <<>>
    /\ ai_interactions = <<>>
    /\ judge = <<>>
    /\ clock = 1
    /\ thr = [t \in 1..1 |-> Idle(Resp(0, "none"))]

Aggregate ==
    /\ aggregate = NoAggregate
    /\ aggregate' = model_aggregate_scores(scores.behavioral_score, scores.prompt_score,
                                           scores.critical_score, scores.feature_importances)
    /\ UNCHANGED <<backend, telemetry, features, scores, texts, hunks>>

NextAgg == Aggregate

SpecAgg == InitAgg /\ [][NextAgg]_vars

-----------------------------------------------------------------------------
(* services/diff.py: parse_hunks.  A str is the sequence of its characters, *)
(* each a one-character string.  Offsets into the line lists are 0-based    *)
(* and ranges half-open, as in the Python code; a line number is written    *)
(* into the diff as one decimal digit.                                      *)

\* str.splitlines(keepends=True) for the line break "\n": the lines of the
\* remaining text behind the partial line read so far
RECURSIVE SplitLines(_, _)
SplitLines(text, line) ==
    IF text = <<>> THEN (IF line = <<>> THEN <<>> ELSE <<line>>)
    ELSE IF Head(text) = "\n"
         THEN <<Append(line, "\n")>> \o SplitLines(Tail(text), <<>>)
    ELSE SplitLines(Tail(text), Append(line, Head(text)))

splitlines(text) == SplitLines(text, <<>>)

\* "".join(parts)
RECURSIVE Join(_)
Join(parts) == IF parts = <<>> THEN <<>> ELSE Head(parts) \o Join(Tail(parts))

\* str(n) and int(s) for one digit
Digits == <<"0", "1", "2", "3", "4", "5", "6", "7", "8", "9">>
Str(n) == <<Digits[n + 1]>>
IsDigit(c) == \E n \in 0..9 : Digits[n + 1] = c
ParseInt(c) == CHOOSE n \in 0..9 : Digits[n + 1] = c

\* difflib.SequenceMatcher.find_longest_match without junk: <<i, j, k>> with
\* a[i:i+k] == b[j:j+k] inside a[alo:ahi], b[blo:bhi], k largest, then i
\* smallest, then j smallest; <<alo, blo, 0>> when no line matches
find_longest_match(a, b, alo, ahi, blo, bhi) ==
    LET blocks == {m \in (alo..(ahi - 1)) \X (blo..(bhi - 1)) \X (1..(ahi - alo)) :
                     /\ m[1] + m[3] <= ahi
                     /\ m[2] + m[3] <= bhi
                     /\ \A d \in 1..m[3] : a[m[1] + d] = b[m[2] + d]}
    IN IF blocks = {} THEN <<alo, blo, 0>>
       ELSE CHOOSE m \in blocks :
               \A c \in blocks :
                  \/ m[3] > c[3]
                  \/ m[3] = c[3] /\ m[1] < c[1]
                  \/ m[3] = c[3] /\ m[1] = c[1] /\ m[2] <= c[2]

\* difflib.SequenceMatcher.get_matching_blocks, without the final sentinel:
\* the longest match, then the same to its left and to its right
RECURSIVE matching_blocks(_, _, _, _, _, _)
matching_blocks(a, b, alo, ahi, blo, bhi) ==
    LET m == find_longest_match(a, b, alo, ahi, blo, bhi)
        i == m[1]
        j == m[2]
        k == m[3]
    IN IF k = 0 THEN <<>>
       ELSE (IF alo < i /\ blo < j THEN matching_blocks(a, b, alo, i, blo, j) ELSE <<>>)
            \o <<m>>
            \o (IF i + k < ahi /\ j + k < bhi
                THEN matching_blocks(a, b, i + k, ahi, j + k, bhi) ELSE <<>>)

Opcode(tag, i1, i2, j1, j2) == [tag |-> tag, i1 |-> i1, i2 |-> i2, j1 |-> j1, j2 |-> j2]

\* difflib.SequenceMatcher.get_opcodes: the walk over the matching blocks
\* from position (i, j)
RECURSIVE opcodes_from(_, _, _)
opcodes_from(blocks, i, j) ==
    IF blocks = <<>> THEN <<>>
    ELSE LET ai == Head(blocks)[1]
             bj == Head(blocks)[2]
             size == Head(blocks)[3]
             tag == IF i < ai /\ j < bj THEN "replace"
                    ELSE IF i < ai THEN "delete"
                    ELSE IF j < bj THEN "insert"
                    ELSE ""
         IN (IF tag # "" THEN <<Opcode(tag, i, ai, j, bj)>> ELSE <<>>)
            \o (IF size > 0 THEN <<Opcode("equal", ai, ai + size, bj, bj + size)>> ELSE <<>>)
            \o opcodes_from(Tail(blocks), ai + size, bj + size)

get_opcodes(a, b) ==
    opcodes_from(Append(matching_blocks(a, b, 0, Len(a), 0, Len(b)), <<Len(a), Len(b), 0>>),
                 0, 0)

\* the loop of difflib.SequenceMatcher.get_grouped_opcodes(n=0): a non-empty
\* equal block closes the group with its (empty) head and opens the next
\* with its (empty) tail
RECURSIVE GroupOpcodes(_, _)
GroupOpcodes(codes, group) ==
    IF codes = <<>>
    THEN IF group # <<>> /\ ~(Len(group) = 1 /\ group[1].tag = "equal")
         THEN <<group>> ELSE <<>>
    ELSE LET c == Head(codes)
         IN IF c.tag = "equal" /\ c.i2 - c.i1 > 0
            THEN <<Append(group, [c EXCEPT !.i2 = c.i1, !.j2 = c.j1])>>
                 \o GroupOpcodes(Tail(codes), <<[c EXCEPT !.i1 = c.i2, !.j1 = c.j2]>>)
            ELSE GroupOpcodes(Tail(codes), Append(group, c))

\* get_grouped_opcodes(0): a leading and a trailing equal block are cut to
\* their empty end before the loop
get_grouped_opcodes(a, b) ==
    LET raw == get_opcodes(a, b)
        codes0 == IF raw = <<>> THEN <<Opcode("equal", 0, 1, 0, 1)>> ELSE raw
        codes1 == IF codes0[1].tag = "equal"
                  THEN [codes0 EXCEPT ![1].i1 = codes0[1].i2, ![1].j1 = codes0[1].j2]
                  ELSE codes0
        last == Len(codes1)
        codes == IF codes1[last].tag = "equal"
                 THEN [codes1 EXCEPT ![last].i2 = codes1[last].i1,
                                     ![last].j2 = codes1[last].j1]
                 ELSE codes1
    IN GroupOpcodes(codes, <<>>)

\* faulty variant: an empty range is not moved to the line before it
format_range_unified_NoShift(start, stop) ==
    LET beginning == start + 1
        length == stop - start
    IN IF length = 1 THEN Str(beginning)
       ELSE Str(beginning) \o <<",">> \o Str(length)

\* difflib._format_range_unified: "start" for one line, else "start,length",
\* where an empty range begins at the line before it
format_range_unified(start, stop) ==
    LET beginning == start + 1
        length == stop - start
    IN IF length = 1 THEN Str(beginning)
       ELSE Str(IF length = 0 THEN beginning - 1 ELSE beginning) \o <<",">> \o Str(length)

\* the lines difflib.unified_diff yields for one group: the @@ line, then
\* the lines of each opcode behind their prefix
DiffGroup(a, b, group) ==
    LET first == group[1]
        last == group[Len(group)]
        header == <<"@", "@", " ", "-">> \o format_range_unified(first.i1, last.i2)
                  \o <<" ", "+">> \o format_range_unified(first.j1, last.j2)
                  \o <<" ", "@", "@", "\n">>
        lines(op) ==
           IF op.tag = "equal"
           THEN [k \in 1..(op.i2 - op.i1) |-> <<" ">> \o a[op.i1 + k]]
           ELSE (IF op.tag \in {"replace", "delete"}
                 THEN [k \in 1..(op.i2 - op.i1) |-> <<"-">> \o a[op.i1 + k]] ELSE <<>>)
                \o (IF op.tag \in {"replace", "insert"}
                    THEN [k \in 1..(op.j2 - op.j1) |-> <<"+">> \o b[op.j1 + k]] ELSE <<>>)
    IN <<header>> \o Join([g \in 1..Len(group) |-> lines(group[g])])

\* list(difflib.unified_diff(a, b, n=0)): the two file header lines before
\* the first group, nothing for equal inputs
unified_diff(a, b) ==
    LET groups == get_grouped_opcodes(a, b)
    IN IF groups = <<>> THEN <<>>
       ELSE <<<<"-", "-", "-", " ", "\n">>, <<"+", "+", "+", " ", "\n">>>>
            \o Join([g \in 1..Len(groups) |-> DiffGroup(a, b, groups[g])])

\* line.startswith("@@")
StartsWithAt(line) == Len(line) >= 2 /\ line[1] = "@" /\ line[2] = "@"

\* a range "(\d+)(?:,(\d+))?" of the pattern read at position p of the
\* line: its two groups and the position behind it, or None
MatchRange(line, p) ==
    IF p > Len(line) \/ ~IsDigit(line[p]) THEN None
    ELSE IF p + 2 <= Len(line) /\ line[p + 1] = "," /\ IsDigit(line[p + 2])
         THEN Some([start |-> ParseInt(line[p]), count |-> Some(ParseInt(line[p + 2])), next |-> p + 3])
    ELSE Some([start |-> ParseInt(line[p]), count |-> None, next |-> p + 1])

\* re.match(r"@@ -(\d+)(?:,(\d+))? \+(\d+)(?:,(\d+))? @@", line): groups 1
\* and 2, or None
MatchHeader(line) ==
    IF Len(line) < 4 \/ SubSeq(line, 1, 4) # <<"@", "@", " ", "-">> THEN None
    ELSE LET from == MatchRange(line, 5)
         IN IF from = None THEN None
            ELSE LET p == Val(from).next
                 IN IF p + 1 > Len(line) \/ SubSeq(line, p, p + 1) # <<" ", "+">> THEN None
                    ELSE LET to == MatchRange(line, p + 2)
                         IN IF to = None THEN None
                            ELSE LET q == Val(to).next
                                 IN IF q + 2 <= Len(line)
                                       /\ SubSeq(line, q, q + 2) = <<" ", "@", "@">>
                                    THEN Some([start |-> Val(from).start,
                                               count |-> Val(from).count])
                                    ELSE None

Hunk(index, original_code, proposed_code, start_line, end_line) ==
    [index |-> index, original_code |-> original_code, proposed_code |-> proposed_code,
     start_line |-> start_line, end_line |-> end_line,
     char_count_proposed |-> Len(proposed_code)]

\* for pure insertions orig_count == 0 and the end is the start
OrigEnd(orig_start, orig_count) ==
    IF orig_count > 0 THEN orig_start + orig_count - 1 ELSE orig_start

\* faulty variant: hunk_index is not incremented
RECURSIVE ParseFrom_NoIncrement(_, _, _)
ParseFrom_NoIncrement(diff_lines, i, hunk_index) ==
    IF i > Len(diff_lines) THEN <<>>
    ELSE IF ~StartsWithAt(diff_lines[i])
         THEN ParseFrom_NoIncrement(diff_lines, i + 1, hunk_index)
    ELSE LET m == MatchHeader(diff_lines[i])
         IN IF m = None THEN ParseFrom_NoIncrement(diff_lines, i + 1, hunk_index)
            ELSE LET orig_start == Val(m).start
                     orig_count == IF Val(m).count = None THEN 1 ELSE Val(Val(m).count)
                     stop == Min({k \in (i + 1)..(Len(diff_lines) + 1) :
                                    k = Len(diff_lines) + 1 \/ StartsWithAt(diff_lines[k])})
                     body == SubSeq(diff_lines, i + 1, stop - 1)
                     removed == SelectSeq(body, LAMBDA dl : dl[1] = "-")
                     added == SelectSeq(body, LAMBDA dl : dl[1] = "+")
                 IN <<Hunk(hunk_index,
                           Join([k \in 1..Len(removed) |-> Tail(removed[k])]),
                           Join([k \in 1..Len(added) |-> Tail(added[k])]),
                           orig_start, OrigEnd(orig_start, orig_count))>>
                    \o ParseFrom_NoIncrement(diff_lines, stop, hunk_index)

\* lines 61-104: the loop over diff_lines from position i (1-based) with
\* hunk_index hunks built so far; lines before the first @@ are skipped
RECURSIVE ParseFrom(_, _, _)
ParseFrom(diff_lines, i, hunk_index) ==
    IF i > Len(diff_lines) THEN <<>>
    ELSE IF ~StartsWithAt(diff_lines[i]) THEN ParseFrom(diff_lines, i + 1, hunk_index)
    ELSE LET m == MatchHeader(diff_lines[i])
         IN IF m = None THEN ParseFrom(diff_lines, i + 1, hunk_index)
            ELSE LET orig_start == Val(m).start
                     orig_count == IF Val(m).count = None THEN 1 ELSE Val(Val(m).count)
                     stop == Min({k \in (i + 1)..(Len(diff_lines) + 1) :
                                    k = Len(diff_lines) + 1 \/ StartsWithAt(diff_lines[k])})
                     body == SubSeq(diff_lines, i + 1, stop - 1)
                     removed == SelectSeq(body, LAMBDA dl : dl[1] = "-")
                     added == SelectSeq(body, LAMBDA dl : dl[1] = "+")
                 IN <<Hunk(hunk_index,
                           Join([k \in 1..Len(removed) |-> Tail(removed[k])]),
                           Join([k \in 1..Len(added) |-> Tail(added[k])]),
                           orig_start, OrigEnd(orig_start, orig_count))>>
                    \o ParseFrom(diff_lines, stop, hunk_index + 1)

\* lines 35-106; orig_lines, prop_lines and diff_lines are each computed
\* once, as by the assignments of lines 47-59
parse_hunks(original, proposed) ==
    CHOOSE parsed \in
       {IF diff_lines = <<>> THEN <<>> ELSE ParseFrom(diff_lines, 1, 0) :
           diff_lines \in {unified_diff(orig_lines, prop_lines) :
                              orig_lines \in {splitlines(original)},
                              prop_lines \in {splitlines(proposed)}}} : TRUE

-----------------------------------------------------------------------------
(* The hunk parser on its own: two texts are drawn from a bounded set and  *)
(* parse_hunks is applied to them.  A text is up to MaxLines terminated    *)
(* lines, with or without an unterminated last line.                       *)

MaxLines == 4

DiffLines == {<<"a", "\n">>, <<"b", "\n">>}
DiffTails == {<<>>, <<"a">>, <<"b">>}

DiffTexts ==
    {Join(ls) \o tail : ls \in SeqsUpTo(DiffLines, MaxLines), tail \in DiffTails}

InitDiff ==
    /\ texts \in [original : DiffTexts, proposed : DiffTexts]
    /\ hunks = NoHunks
    /\ telemetry = NoTelemetry
    /\ features = NoFeatures
    /\ scores = NoScores
    /\ aggregate = NoAggregate
    /\ sessions = <<>>
    /\ ai_suggestions = <<>>
    /\ chunk_decisions = <<>>
    /\ events = <<>>
    /\ editor_events = <<>>
    /\ session_scores = <<>>
    /\ ai_interactions = <<>>
    /\ judge = <<>>
    /\ clock = 1
    /\ thr = [t \in 1..1 |-> Idle(Resp(0, "none"))]

Decompose ==
    /\ hunks = NoHunks
    /\ hunks' = [status |-> "ok", hunks |-> parse_hunks(texts.original, texts.proposed)]
    /\ UNCHANGED <<backend, telemetry, features, scores, aggregate, texts>>

NextDiff == Decompose

SpecDiff == InitDiff /\ [][NextDiff]_vars

-----------------------------------------------------------------------------
(* Properties *)

\* the decisions recorded for suggestion s, as row numbers
DecisionsOf(s) == {i \in 1..Len(chunk_decisions) : chunk_decisions[i].suggestion_id = s}

\* suggestion s has a known hunks_count and exactly one decision per index
\* 0..hunks_count-1
FullyDecided(s) ==
    /\ ai_suggestions[s].hunks_count # <<>>
    /\ LET N == ai_suggestions[s].hunks_count[1]
       IN /\ N >= 1
          /\ Cardinality(DecisionsOf(s)) = N
          /\ \A k \in 0..(N - 1) :
                \E i \in DecisionsOf(s) : chunk_decisions[i].chunk_index = k

\* resolve() was never called with success on s
NotResolvedByResolve(s) ==
    \A i \in 1..Len(events) :
       ~(events[i].event_type = "suggestion_resolved" /\ events[i].suggestion_id = s)

\* C1: a suggestion with known hunks_count = N whose N indices have all been
\* decided, once each, is resolved, with all_accepted iff every decision is
\* accepted and any_modified iff some decision is modified
C1_ResolvedAfterAllDecided ==
    \A s \in 1..Len(ai_suggestions) :
       (FullyDecided(s) /\ NotResolvedByResolve(s)) =>
          /\ ai_suggestions[s].resolved_at # <<>>
          /\ ai_suggestions[s].all_accepted =
                <<\A i \in DecisionsOf(s) : chunk_decisions[i].decision = "accepted">>
          /\ ai_suggestions[s].any_modified =
                <<\E i \in DecisionsOf(s) : chunk_decisions[i].decision = "modified">>

\* a ChunkDecision is stored for the pair (s, k)
Decided(s, k) ==
    \E i \in 1..Len(chunk_decisions) :
       chunk_decisions[i].suggestion_id = s /\ chunk_decisions[i].chunk_index = k

\* the chunk_* audit events
ChunkEvents ==
    {i \in 1..Len(events) :
       events[i].event_type \in {"chunk_accepted", "chunk_rejected", "chunk_modified"}}

\* C2: a decide on a (suggestion_id, chunk_index) pair that already has a
\* ChunkDecision is answered 409 "Chunk already decided" and changes no
\* table: the decisions, the audit events and the suggestion stay as they were
C2_SecondDecideConflicts ==
    [][\A t \in Threads :
         (thr[t].pc = "idle" /\ thr'[t] # thr[t]) =>
            \A sug \in 1..Len(ai_suggestions), k \in ChunkIndexes :
               Decided(sug, k) =>
                  \A body \in DecideBodies :
                     DecideBegin(t, ai_suggestions[sug].session_id, sug, k, body) =>
                        /\ thr'[t].pc = "idle"
                        /\ thr'[t].resp.status = 409
                        /\ thr'[t].resp.msg = "Chunk already decided"
                        /\ chunk_decisions' = chunk_decisions
                        /\ events' = events
                        /\ ai_suggestions' = ai_suggestions]_vars

C2_Witness ==
    \E t \in Threads :
       /\ thr[t].resp.status = 409
       /\ thr[t].resp.msg = "Chunk already decided"
       /\ chunk_decisions # <<>>

\* the number of ChunkDecisions, resp. chunk_* audit events, that carry the
\* given key
NumDecisions(s, k, d, ms) ==
    Cardinality({i \in 1..Len(chunk_decisions) :
                   /\ chunk_decisions[i].suggestion_id = s
                   /\ chunk_decisions[i].chunk_index = k
                   /\ chunk_decisions[i].decision = d
                   /\ chunk_decisions[i].time_on_chunk_ms = ms})
NumChunkEvents(s, k, d, ms) ==
    Cardinality({i \in ChunkEvents :
                   /\ events[i].suggestion_id = s
                   /\ events[i].chunk_index = k
                   /\ events[i].event_type = "chunk_" \o d
                   /\ events[i].time_on_chunk_ms = ms})

\* every ChunkDecision pairs off with one chunk_<decision> audit event of the
\* same suggestion_id and chunk_index, and every such event with a decision
DecisionsPairedWithEvents ==
    /\ Len(chunk_decisions) = Cardinality(ChunkEvents)
    /\ \A i \in 1..Len(chunk_decisions) :
          LET d == chunk_decisions[i]
          IN NumDecisions(d.suggestion_id, d.chunk_index, d.decision, d.time_on_chunk_ms)
             = NumChunkEvents(d.suggestion_id, d.chunk_index, d.decision, d.time_on_chunk_ms)

\* C3: decide stores the ChunkDecision and its chunk_<decision> audit event
\* together or not at all: in every state the decisions and the chunk events
\* pair off one to one, and a decide answered 500 (the audit-event write or
\* the commit failed) leaves decisions, events and suggestion untouched
C3_DecisionAndEventAtomic ==
    /\ []DecisionsPairedWithEvents
    /\ [][\A t \in Threads :
            (thr'[t] # thr[t] /\ thr'[t].resp.status = 500) =>
               /\ chunk_decisions' = chunk_decisions
               /\ events' = events
               /\ ai_suggestions' = ai_suggestions]_vars

C3_Witness ==
    /\ \E t \in Threads : thr[t].resp.status = 500
    /\ Len(chunk_decisions) >= 2
    /\ DecisionsPairedWithEvents

\* C4: at most one ChunkDecision exists per (suggestion_id, chunk_index)
\* pair, whatever the interleaving of the requests
C4_OneDecisionPerPair ==
    \A i, j \in 1..Len(chunk_decisions) :
       (/\ chunk_decisions[i].suggestion_id = chunk_decisions[j].suggestion_id
        /\ chunk_decisions[i].chunk_index = chunk_decisions[j].chunk_index) => i = j

\* C5: once the decisions of all N indices of a suggestion with known
\* hunks_count = N are committed and no request is still running, the
\* suggestion is resolved and its flags are computed over all N decisions
C5_CompletionDoesNotRace ==
    (\A t \in Threads : thr[t].pc = "idle") =>
       \A s \in 1..Len(ai_suggestions) :
          (/\ ai_suggestions[s].hunks_count # <<>>
           /\ \A k \in 0..(ai_suggestions[s].hunks_count[1] - 1) : Decided(s, k)
           /\ NotResolvedByResolve(s)) =>
              /\ ai_suggestions[s].resolved_at # <<>>
              /\ ai_suggestions[s].all_accepted =
                    <<\A i \in DecisionsOf(s) : chunk_decisions[i].decision = "accepted">>
              /\ ai_suggestions[s].any_modified =
                    <<\E i \in DecisionsOf(s) : chunk_decisions[i].decision = "modified">>

\* the value the contract stores for a submitted time_on_chunk_ms
Clamped(ms) == IF ms < 100 THEN 100 ELSE IF ms > 300000 THEN 300000 ELSE ms

\* C6: the ChunkDecision a decide stores has time_on_chunk_ms =
\* max(100, min(300000, t)) for the submitted t, so it lies in [100, 300000],
\* and the paired audit event carries the same value
C6_TimeOnChunkClamped ==
    [][\A t \in Threads :
         (thr[t].pc = "decide_commit" /\ Len(chunk_decisions') = Len(chunk_decisions) + 1) =>
            LET d == chunk_decisions'[Len(chunk_decisions')]
                e == events'[Len(events')]
            IN /\ d.time_on_chunk_ms = Clamped(thr[t].body.time_on_chunk_ms[1])
               /\ d.time_on_chunk_ms >= 100
               /\ d.time_on_chunk_ms <= 300000
               /\ e.time_on_chunk_ms = d.time_on_chunk_ms
               /\ e.chunk_index = d.chunk_index
               /\ e.suggestion_id = d.suggestion_id]_vars

C6_Witness ==
    /\ \E i \in 1..Len(chunk_decisions) : chunk_decisions[i].time_on_chunk_ms = 100
    /\ \E i \in 1..Len(chunk_decisions) : chunk_decisions[i].time_on_chunk_ms = 300000

\* the request is made with the header of an existing session that owns the
\* existing suggestion sug
OwnSuggestion(sid, sug) ==
    /\ sid \in 1..Len(sessions)
    /\ sug \in 1..Len(ai_suggestions)
    /\ ai_suggestions[sug].session_id = sid

\* C7: for a suggestion with unknown hunks_count no chunk_index >= 0 is
\* refused as invalid; with a known hunks_count the decide is answered 400
\* "Invalid chunk_index" exactly when not 0 <= chunk_index < hunks_count, and
\* then no table changes
C7_ChunkIndexRange ==
    [][\A t \in Threads :
         (thr[t].pc = "idle" /\ thr'[t] # thr[t]) =>
            LET refused == /\ thr'[t].resp.status = 400
                           /\ thr'[t].resp.msg = "Invalid chunk_index for this suggestion"
            IN \A sug \in 1..Len(ai_suggestions), k \in ChunkIndexes :
                  LET h == ai_suggestions[sug].hunks_count
                      invalid == h # <<>> /\ ~(0 <= k /\ k < h[1])
                  IN (refused \/ invalid) =>
                        \A body \in DecideBodies :
                           DecideBegin(t, ai_suggestions[sug].session_id, sug, k, body) =>
                              /\ refused <=> invalid
                              /\ refused => /\ chunk_decisions' = chunk_decisions
                                            /\ events' = events
                                            /\ ai_suggestions' = ai_suggestions]_vars

C7_Witness ==
    /\ \E t \in Threads : /\ thr[t].resp.status = 400
                          /\ thr[t].resp.msg = "Invalid chunk_index for this suggestion"
    /\ \E s \in 1..Len(ai_suggestions) : ai_suggestions[s].hunks_count # <<>>
    /\ chunk_decisions # <<>>

\* a second case of C7: a decision stored at an index beyond every known
\* count while hunks_count is unknown
C7_WitnessUnknown ==
    \E i \in 1..Len(chunk_decisions) :
       /\ chunk_decisions[i].chunk_index = MaxHunks
       /\ ai_suggestions[chunk_decisions[i].suggestion_id].hunks_count = <<>>

C8_WitnessOtherSession ==
    /\ \E t \in Threads : /\ thr[t].resp.status = 404
                          /\ thr[t].resp.msg = "Suggestion not found"
    /\ Len(sessions) = 2
    /\ Len(ai_suggestions) = 1

\* the columns of a suggestion other than the derived all_accepted and
\* any_modified
NonDerived(row) ==
    <<row.session_id, row.original_content, row.proposed_content, row.hunks_count,
      row.shown_at, row.resolved_at>>

\* C9: a decide or resolve request that arrives when the suggestion is
\* already resolved does not change its resolved_at nor any other non-derived
\* column
C9_ResolvedImmutable ==
    [][\A t \in Threads :
         (/\ thr[t].pc \in {"decide_commit", "resolve_commit"}
          /\ thr[t].loaded[1].resolved_at # <<>>
          /\ thr'[t].pc = "idle") =>
            NonDerived(ai_suggestions'[thr[t].sug]) = NonDerived(ai_suggestions[thr[t].sug])]_vars

\* C10: end_session on a session whose ended_at is set is answered 400
\* "Session already ended", leaves ended_at as it is and stores no
\* SessionScore
C10_EndSessionTwice ==
    [][\A t \in Threads :
         (thr[t].pc = "idle" /\ thr'[t] # thr[t]) =>
            \A sid \in SessionHeaders :
               (/\ sid \in 1..Len(sessions)
                /\ sessions[sid].ended_at # <<>>
                /\ EndSessionBegin(t, sid)) =>
                  /\ thr'[t].pc = "idle"
                  /\ thr'[t].resp.status = 400
                  /\ thr'[t].resp.msg = "Session already ended"
                  /\ sessions' = sessions
                  /\ session_scores' = session_scores]_vars

C10_Witness ==
    \E t \in Threads :
       /\ thr[t].resp.status = 400
       /\ thr[t].resp.msg = "Session already ended"
       /\ \E sid \in 1..Len(sessions) : sessions[sid].ended_at # <<>>

-----------------------------------------------------------------------------
(* start_session *)

\* the un-ended sessions of a user for the project
ActiveSessions(username) ==
    {i \in 1..Len(sessions) :
       /\ sessions[i].username = username
       /\ sessions[i].project_name = ProjectName
       /\ sessions[i].ended_at = <<>>}

-----------------------------------------------------------------------------
(* require_session *)

\* C12: a handler guarded by require_session writes nothing for a session
\* that has been ended: every row added to ai_suggestions, chunk_decisions,
\* events or editor_events belongs to a session that is un-ended, and the
\* suggestions of an ended session are not modified
C12_EndedSessionRejected ==
    [][LET ended(sid) == sessions[sid].ended_at # <<>>
       IN /\ Len(ai_suggestions') > Len(ai_suggestions) =>
                ~ended(ai_suggestions'[Len(ai_suggestions')].session_id)
          /\ Len(chunk_decisions') > Len(chunk_decisions) =>
                ~ended(chunk_decisions'[Len(chunk_decisions')].session_id)
          /\ (Len(events') > Len(events) /\ Len(sessions') = Len(sessions)) =>
                ~ended(events'[Len(events')].session_id)
          /\ Len(editor_events') > Len(editor_events) =>
                ~ended(editor_events'[Len(editor_events')].session_id)
          /\ \A i \in 1..Len(ai_suggestions) :
                ai_suggestions'[i] # ai_suggestions[i] =>
                   ~ended(ai_suggestions[i].session_id)]_vars

-----------------------------------------------------------------------------
(* end_session and the scoring pipeline *)

\* C13: an end_session answered 200 has set ended_at and has stored a
\* SessionScore of that session by the time it answers
C13_ScoreStoredOnEnd ==
    [][\A t \in Threads :
         (/\ thr[t].pc = "end_commit"
          /\ thr'[t].pc = "idle"
          /\ thr'[t].resp.status = 200) =>
            /\ sessions'[thr[t].sid].ended_at # <<>>
            /\ Len(session_scores') = Len(session_scores) + 1
            /\ session_scores'[Len(session_scores')].session_id = thr[t].sid]_vars

\* C14: every stored SessionScore has overall_label among over_reliant,
\* balanced, strategic and weighted_score within [1.0, 5.0] (in hundredths)
C14_ScoreLabelAndRange ==
    \A i \in 1..Len(session_scores) :
       /\ session_scores[i].overall_label \in {"over_reliant", "balanced", "strategic"}
       /\ session_scores[i].weighted_score >= 100
       /\ session_scores[i].weighted_score <= 500

-----------------------------------------------------------------------------
(* extract (model/features.py) *)

\* position of a feature in the vector
FeatureIndex(name) == CHOOSE i \in 1..Len(FEATURE_NAMES) : FEATURE_NAMES[i] = name

\* C15: extract never raises and returns 16 numbers, all zero for the empty
\* telemetry
C15_ExtractTotal ==
    features.status # "none" =>
       /\ features.status = "ok"
       /\ Len(features.vector) = 16
       /\ (/\ telemetry.decisions = <<>>
           /\ telemetry.events = <<>>
           /\ telemetry.interactions = <<>>
           /\ telemetry.session_start = <<>>) =>
             \A i \in 1..16 : features.vector[i] = <<0, 1>>

\* the permutations of 1..n
Perms(n) == {p \in [1..n -> 1..n] : \A i, j \in 1..n : p[i] = p[j] => i = j}

\* C16: the vector extract returned is the one it returns for every
\* reordering of the decisions, events and interactions lists
C16_OrderIndependent ==
    features.status = "ok" =>
       \A pd \in Perms(Len(telemetry.decisions)),
          pe \in Perms(Len(telemetry.events)),
          pq \in Perms(Len(telemetry.interactions)) :
          extract_behavioral_features(
             [decisions |-> [i \in 1..Len(pd) |-> telemetry.decisions[pd[i]]],
              events |-> [i \in 1..Len(pe) |-> telemetry.events[pe[i]]],
              interactions |-> [i \in 1..Len(pq) |-> telemetry.interactions[pq[i]]],
              session_start |-> telemetry.session_start]) = features

\* C17: with every shown_at present, ratio_reprompt is the number of
\* consecutive pairs, in shown_at order, less than 60 s apart, divided by the
\* number of consecutive pairs; it is 0 for fewer than two interactions
C17_RepromptRatio ==
    (/\ features.status = "ok"
     /\ \A i \in 1..Len(telemetry.interactions) :
           telemetry.interactions[i].shown_at # <<>>) =>
       LET n == Len(telemetry.interactions)
           at(i) == telemetry.interactions[i].shown_at[1].at
           p == CHOOSE q \in Perms(n) : \A i \in 1..(n - 1) : at(q[i]) <= at(q[i + 1])
           close == Cardinality({i \in 1..(n - 1) : at(p[i + 1]) - at(p[i]) < 60})
           ratio == features.vector[FeatureIndex("ratio_reprompt")]
       IN IF n < 2 THEN ratio = <<0, 1>>
          ELSE ratio[1] * (n - 1) = close * ratio[2]

\* C18: rate_post_acceptance_edit is the mean over all modified decisions of
\* |len(final_code) - len(proposed_code)| / max(1, len(proposed_code)), and
\* 0 without a modified decision
C18_PostAcceptanceEditRate ==
    features.status = "ok" =>
       LET ds == telemetry.decisions
           M == {i \in 1..Len(ds) : ds[i].decision = "modified"}
           den(i) == IF ds[i].proposed_code > 1 THEN ds[i].proposed_code ELSE 1
           num(i) == IF ds[i].final_code >= ds[i].proposed_code
                     THEN ds[i].final_code - ds[i].proposed_code
                     ELSE ds[i].proposed_code - ds[i].final_code
           rate == features.vector[FeatureIndex("rate_post_acceptance_edit")]
       IN IF M = {} THEN rate = <<0, 1>>
          ELSE \* rate = (sum over M of num/den) / |M|, with at most two terms
               \E i, j \in M :
                  /\ M = {i, j}
                  /\ IF i = j
                     THEN rate[1] * den(i) = num(i) * rate[2]
                     ELSE rate[1] * (2 * den(i) * den(j))
                          = (num(i) * den(j) + num(j) * den(i)) * rate[2]

\* C19: depth_iteration is the number of executes that, among the edit and
\* execute events in timestamp order (missing timestamps first, equal ones
\* in input order), come directly after an edit
C19_DepthIteration ==
    features.status = "ok" =>
       LET es == telemetry.events
           key(i) == IF es[i].timestamp = <<>> THEN -1 ELSE es[i].timestamp[1].at
           before(i, j) == key(i) < key(j) \/ (key(i) = key(j) /\ i < j)
           steps == {i \in 1..Len(es) : es[i].event_type \in {"edit", "execute"}}
           counted == {j \in steps :
                         /\ es[j].event_type = "execute"
                         /\ \E i \in steps :
                               /\ es[i].event_type = "edit"
                               /\ before(i, j)
                               /\ ~\E k \in steps : before(i, k) /\ before(k, j)}
       IN features.vector[FeatureIndex("depth_iteration")] = <<Cardinality(counted), 1>>

\* two edits before one execute count once
C19_Witness ==
    /\ features.status = "ok"
    /\ Len(telemetry.events) = 3
    /\ telemetry.events[1].event_type = "edit"
    /\ telemetry.events[2].event_type = "execute"
    /\ telemetry.events[3].event_type = "edit"
    /\ telemetry.events[3].timestamp = <<>>
    /\ features.vector[FeatureIndex("depth_iteration")] = <<1, 1>>

-----------------------------------------------------------------------------
(* aggregate (model/aggregation.py) *)

\* C20: aggregate weighs 0.50 / 0.25 / 0.25 exactly when a feature-importance
\* map is supplied whose importances of duration_deliberation_avg,
\* freq_verification and pct_time_editor sum to more than 0.4, and
\* 0.34 / 0.33 / 0.33 otherwise
C20_ImportanceWeights ==
    aggregate.status = "ok" =>
       LET m == scores.feature_importances
           imp(f) == IF m # <<>> /\ f \in DOMAIN m[1] THEN m[1][f] ELSE 0
           total == imp("duration_deliberation_avg") + imp("freq_verification")
                    + imp("pct_time_editor")
           w == IF total > 40 THEN <<50, 25, 25>> ELSE <<34, 33, 33>>
       IN /\ aggregate.weights = w
          /\ aggregate.weighted_score
                = Round2(scores.behavioral_score * w[1] + scores.prompt_score * w[2]
                         + scores.critical_score * w[3])

\* C21: the score aggregate returns lies in [1.0, 5.0] and the label it
\* returns is the one the thresholds give for that returned score: strategic
\* iff score >= 3.5, balanced iff 2.5 <= score < 3.5, over_reliant iff
\* score < 2.5
C21_LabelMatchesReturnedScore ==
    aggregate.status = "ok" =>
       /\ aggregate.weighted_score >= 100
       /\ aggregate.weighted_score <= 500
       /\ aggregate.overall_label = "strategic" <=> aggregate.weighted_score >= 350
       /\ aggregate.overall_label = "balanced" <=>
             (aggregate.weighted_score >= 250 /\ aggregate.weighted_score < 350)
       /\ aggregate.overall_label = "over_reliant" <=> aggregate.weighted_score < 250

-----------------------------------------------------------------------------
(* decompose (services/diff.py) *)

\* C22: the hunks of a decomposition carry the indices 0, 1, ..., n-1 in
\* list order, their start_line never decreases along the list, and
\* char_count_proposed is the length of proposed_code
C22_HunksIndexedInOrder ==
    hunks.status = "ok" =>
       LET hs == hunks.hunks
       IN \A k \in 1..Len(hs) :
             /\ hs[k].index = k - 1
             /\ hs[k].char_count_proposed = Len(hs[k].proposed_code)
             /\ k > 1 => hs[k - 1].start_line <= hs[k].start_line

\* three hunks, the last one with a multi-character proposed_code
C22_Witness ==
    /\ hunks.status = "ok"
    /\ Len(hunks.hunks) = 3
    /\ hunks.hunks[3].index = 2
    /\ hunks.hunks[3].char_count_proposed >= 2

\* C23: every hunk has 1 <= start_line <= end_line; a pure insertion has
\* end_line = start_line, and a hunk that removes lines removes exactly
\* end_line - start_line + 1 of them
C23_LineRange ==
    hunks.status = "ok" =>
       \A k \in 1..Len(hunks.hunks) :
          LET h == hunks.hunks[k]
          IN /\ 1 <= h.start_line
             /\ h.start_line <= h.end_line
             /\ h.original_code = <<>> => h.end_line = h.start_line
             /\ h.original_code # <<>> =>
                   Len(splitlines(h.original_code)) = h.end_line - h.start_line + 1

\* the text obtained from the lines of the original behind line pos by
\* replacing, hunk by hunk, lines start_line..end_line by proposed_code, or
\* by inserting proposed_code after line start_line for a pure insertion
RECURSIVE ApplyHunks(_, _, _)
ApplyHunks(lines, hs, pos) ==
    IF hs = <<>> THEN Join(SubSeq(lines, pos + 1, Len(lines)))
    ELSE LET h == Head(hs)
         IN IF h.original_code = <<>>
            THEN Join(SubSeq(lines, pos + 1, h.start_line)) \o h.proposed_code
                 \o ApplyHunks(lines, Tail(hs), h.start_line)
            ELSE Join(SubSeq(lines, pos + 1, h.start_line - 1)) \o h.proposed_code
                 \o ApplyHunks(lines, Tail(hs), h.end_line)

\* C24: the original_code of a hunk that removes lines is the text of lines
\* start_line..end_line of the original, and applying the hunks to the
\* original gives the proposed text, character for character
C24_RoundTrip ==
    hunks.status = "ok" =>
       LET lines == splitlines(texts.original)
       IN /\ \A k \in 1..Len(hunks.hunks) :
                LET h == hunks.hunks[k]
                IN /\ h.start_line <= Len(lines)
                   /\ h.original_code # <<>> =>
                         /\ 1 <= h.start_line
                         /\ h.end_line <= Len(lines)
                         /\ h.original_code = Join(SubSeq(lines, h.start_line, h.end_line))
          /\ ApplyHunks(lines, hunks.hunks, 0) = texts.proposed

\* a pure deletion and a pure insertion in one decomposition, the proposed
\* text ending without a line terminator
C24_Witness ==
    /\ hunks.status = "ok"
    /\ \E k \in 1..Len(hunks.hunks) :
          hunks.hunks[k].original_code = <<>> /\ hunks.hunks[k].proposed_code # <<>>
    /\ \E k \in 1..Len(hunks.hunks) :
          hunks.hunks[k].proposed_code = <<>> /\ hunks.hunks[k].original_code # <<>>
    /\ texts.proposed # <<>>
    /\ texts.proposed[Len(texts.proposed)] # "\n"

-----------------------------------------------------------------------------
(* the judge thread (services/scoring.py) *)

\* C25: once the pipeline has stored a SessionScore and started its judge
\* thread, the record's llm_narrative is eventually set; a narrative that is
\* set is the LLM's or the fallback naming the record's label and weighted
\* score; and the thread never changes overall_label or weighted_score
C25_NarrativeEventuallySet ==
    /\ \A k \in 1..MaxSessions :
          (Len(judge) >= k) ~>
             (Len(session_scores) >= k /\ session_scores[k].llm_narrative # <<>>)
    /\ [](\A k \in 1..Len(session_scores) :
             LET n == session_scores[k].llm_narrative
             IN n # <<>> =>
                   \/ n[1].kind = "llm"
                   \/ /\ n[1].kind = "fallback"
                      /\ n[1].label = Title(session_scores[k].overall_label)
                      /\ n[1].weight = session_scores[k].weighted_score)
    /\ [][\A k \in 1..Len(session_scores) :
             /\ session_scores'[k].overall_label = session_scores[k].overall_label
             /\ session_scores'[k].weighted_score = session_scores[k].weighted_score]_vars

-----------------------------------------------------------------------------
(* decide_chunk: the order of the checks *)

\* C26: a decide request with the header of an existing session is refused
\* with the first failing check in the order: suggestion not found (404),
\* invalid chunk_index (400), chunk already decided (409), invalid decision
\* (400 "Invalid decision"); the four answers differ in status or message,
\* and a refused request changes no table
C26_DecideCheckOrder ==
    [][\A t \in Threads :
         (thr[t].pc = "idle" /\ thr'[t] # thr[t]) =>
            \A sid \in 1..Len(sessions), sug \in SuggestionIds, k \in ChunkIndexes :
               LET r == thr'[t].resp
                   notfound == ~OwnSuggestion(sid, sug)
                   h == IF notfound THEN <<>> ELSE ai_suggestions[sug].hunks_count
                   invalid == h # <<>> /\ ~(0 <= k /\ k < h[1])
                   decided == Decided(sug, k)
               IN \A body \in DecideBodies :
                     LET unknown == body.decision \notin {"accepted", "rejected", "modified"}
                         expected ==
                            IF notfound
                            THEN r.status = 404 /\ r.msg = "Suggestion not found"
                            ELSE IF invalid
                            THEN /\ r.status = 400
                                 /\ r.msg = "Invalid chunk_index for this suggestion"
                            ELSE IF decided
                            THEN r.status = 409 /\ r.msg = "Chunk already decided"
                            ELSE r.status = 400 /\ r.msg = "Invalid decision"
                     IN (notfound \/ invalid \/ decided \/ unknown) =>
                           (DecideBegin(t, sid, sug, k, body) =>
                              /\ expected
                              /\ thr'[t].pc = "idle"
                              /\ UNCHANGED tables)]_vars

\* a decided chunk of a suggestion with known hunks_count exists and the
\* last request was refused for its chunk_index
C26_Witness ==
    /\ \E t \in Threads : /\ thr[t].resp.status = 400
                          /\ thr[t].resp.msg = "Invalid chunk_index for this suggestion"
    /\ Len(chunk_decisions) >= 1
    /\ ai_suggestions[1].hunks_count # <<>>
    /\ Len(sessions) = 2

\* the other three refusals of the order are reached as well
C26_WitnessConflict ==
    \E t \in Threads : thr[t].resp.status = 409 /\ Len(sessions) = 2

-----------------------------------------------------------------------------
(* decide_chunk: completion *)

C28_PhaseOfChat ==
    /\ [][\A t \in Threads :
            (thr[t].pc = "chat_llm" /\ Len(ai_interactions') > Len(ai_interactions)) =>
               LET sid == thr[t].sid
                   ia == ai_interactions'[Len(ai_interactions')]
                   phased == {i \in 1..Len(events) :
                                /\ events[i].session_id = sid
                                /\ events[i].event_type = "panel_focus"
                                /\ events[i].content \in
                                     {"orientation", "implementation", "verification"}}
                   focused == {i \in 1..Len(events) :
                                 /\ events[i].session_id = sid
                                 /\ events[i].event_type = "panel_focus"}
               IN /\ ia.session_id = sid
                  /\ \E i \in phased :
                        /\ \A j \in phased : events[j].timestamp <= events[i].timestamp
                        /\ ia.phase = Some(events[i].content)
                  /\ Cardinality(focused) = 1 => ia.phase = Some("orientation")
                  /\ \E k \in (Len(events) + 1)..Len(events') :
                        /\ events'[k].event_type = "prompt"
                        /\ events'[k].session_id = sid
                        /\ events'[k].interaction_id = ia.interaction_id
                        /\ events'[k].phase = ia.phase]_vars
    /\ [][(Len(events') = Len(events) + 1 /\
           events'[Len(events')].event_type = "panel_focus" /\
           events'[Len(events')].content \in {"editor", "chat", "filetree"}) =>
              \A sid \in 1..Len(sessions) : current_phase(sid)' = current_phase(sid)]_vars

\* a chat was tagged implementation or verification although the newest
\* panel_focus event of its session is for the editor, chat or filetree panel
C28_Witness ==
    \E i \in 1..Len(ai_interactions) :
       /\ ai_interactions[i].phase \in {Some("implementation"), Some("verification")}
       /\ \E k \in 1..Len(events) :
             /\ events[k].session_id = ai_interactions[i].session_id
             /\ events[k].event_type = "panel_focus"
             /\ events[k].content \in {"editor", "chat", "filetree"}
             /\ events[k].timestamp < ai_interactions[i].shown_at
             /\ \A j \in 1..Len(events) :
                   (events[j].session_id = events[k].session_id
                    /\ events[j].event_type = "panel_focus"
                    /\ events[j].timestamp < ai_interactions[i].shown_at)
                      => events[j].timestamp <= events[k].timestamp

\* C29: no request of the API assigns hunks_count: every suggestion made by
\* create_suggestion has an unknown hunks_count in every state, no decide
\* request resolves it, and its resolved_at is set only by the commit of a
\* resolve request for it.
C29_HunksCountNeverAssigned ==
    /\ [](\A s \in 1..Len(ai_suggestions) : IsNone(ai_suggestions[s].hunks_count))
    /\ [][\A s \in 1..Len(ai_suggestions) :
            ai_suggestions'[s].resolved_at # ai_suggestions[s].resolved_at =>
               /\ IsNone(ai_suggestions[s].resolved_at)
               /\ \E t \in Threads : /\ thr[t].pc = "resolve_commit"
                                     /\ thr[t].sug = s
                                     /\ thr'[t].resp.status = 200]_vars
    /\ [][\A t \in Threads :
            thr[t].pc \in {"decide_count", "decide_commit"} =>
               /\ IsNone(thr'[t].upd)
               /\ ai_suggestions'[thr[t].sug].resolved_at =
                     ai_suggestions[thr[t].sug].resolved_at]_vars

\* a suggestion has a recorded decision and was resolved by resolve()
C29_Witness ==
    \E s \in 1..Len(ai_suggestions) :
       /\ IsNone(ai_suggestions[s].hunks_count)
       /\ ~IsNone(ai_suggestions[s].resolved_at)
       /\ \E i \in 1..Len(chunk_decisions) : chunk_decisions[i].suggestion_id = s

====
